---- MODULE Spec2Model ----
(***************************************************************************)
(* Streaming analytics pipeline of Nifty_option_algo.                      *)
(*                                                                         *)
(* Part 1: the candle assembler (src/consumers/candle_builder.py): the     *)
(*         accumulators, the tick handler and the minute-rollover check.   *)
(* Part 2: the event bus (src/event_bus/bus.py): one stream, one consumer  *)
(*         group, the subscribe loop with its acknowledgements.            *)
(* Part 3: the seller-state detector (src/analysis/seller_detector.py).    *)
(***************************************************************************)
EXTENDS Integers, Sequences, FiniteSets, TLC

VARIABLES
    feed,               \* the feed profile the run draws its ticks from
    active_candles,     \* CandleBuilder.active_candles, in dict insertion order
    previous_candles,   \* CandleBuilder.previous_candles: instrument -> <<>> or <<CandleData>>
    last_minute_check,  \* CandleBuilder._last_minute_check: <<>> (None) or <<minute-of-hour>>
    publish_failures,   \* history: [acc, at] for every publish of a candle that raised
    candles,            \* the "candles" stream: published candle events, in publish order
    handled,            \* history: the ticks given to tick_handler, in delivery order
    created,            \* history: the identities of the CandleData objects created so far
    inbox,              \* the "ticks" stream entries delivered to nobody yet
    now,                \* wall-clock minute of the feed
    stream,             \* event bus: the entries [id, data] of one Redis stream
    last_id,            \* event bus: the id of the newest entry ever added
    group_last,         \* event bus: the consumer group's last-delivered id
    pel,                \* event bus: the group's pending entries list (ids)
    batch,              \* subscribe: entries of the current read not yet processed
    log,                \* history: the handler's invocations [id, event], in order
    sent,               \* history: id -> <<event published>>, <<>> for a foreign entry
    delivered,          \* history: ids ever returned by a read of the group
    done,               \* history: ids whose handler returned without raising
    failed,             \* history: ids whose deserialization or handler raised
    running,            \* EventBus._running: the subscribe loop is on
    group_created,      \* event bus: the consumer group exists on the stream
    pending_at_restart, \* history: ids that were pending when subscribe was called
    worker_failed,      \* history: ids during whose handling a worker's own step failed
    result,             \* outcome of the last EventBus.publish call: <<>> before any
    det_in,             \* detector: the arguments of the last SellerStateDetector.detect call
    detection,          \* detector: the DetectionResult it returned, <<>> before any call
    cstream,            \* pipeline: the candle events on the "candles" stream, in publish order
    an_next,            \* analyzer: entries of "candles" delivered to the group "analyzers"
    an_previous,        \* AnalysisConsumer.previous_candles: instrument -> <<>> or <<candle>>
    signal_count,       \* AnalysisConsumer.signal_count
    signals_stream,     \* pipeline: the "signals" stream, [candle_id, event], in publish order
    an_failed,          \* history: positions in cstream whose signal could not be published
    st_next,            \* persister: entries of "candles" delivered to "storage_consumers"
    candles_table,      \* the rows of the candles table, in insertion order
    st_log,             \* history: the persister's handlings [candle_id, before, after, ...]
    redeliveries,       \* history: entries handed to the persister a second time
    status,             \* ServiceManager.services: service -> ServiceInfo.status
    task,               \* ServiceInfo.task: service -> state of the worker's start() task
    worker_running,     \* the worker's own _running flag, per service
    bus_running,        \* EventBus._running of the one bus start_all creates
    client_open,        \* EventBus.client of that bus is a connection (not None)
    loop,               \* subscription and stats loops: "idle", "looping" or how they ended
    ticks_unread,       \* entries of "ticks" the assembler has not read yet
    phase,              \* ServiceManager: "up", "signalled", "stopping", "closed"
    time_passed,        \* history: time has passed since the termination signal
    singled,            \* history: <<>>, or <<[service, how]>>: the one worker stopped or cancelled alone
    reads_after_stop,   \* history: blocking reads a loop began after its worker's stop()
    at_cancel,          \* history: <<>> or <<[unread, waited]>> when stop_all cancelled
    closed_on,          \* history: loops still running when a worker closed the client
    ws_state,           \* ingestor: where start() stands in its reconnect loop
    producer_running,   \* UpstoxLiveProducer._running
    last_subscription,  \* <<>> or <<keys>>: instrumentKeys of the last "sub" message sent
    retry_waits,        \* history: the sleeps since the last established connection
    connections,        \* history: connections established so far
    ob_in,              \* the order-book snapshot handed to the analyzer
    ob_out,             \* <<>> or <<result>> of analyze_order_book
    im_ws,              \* InstrumentManager._websocket is set
    im_lock,            \* InstrumentManager._lock is held
    im_subs,            \* InstrumentManager.subscriptions: key -> <<>> or <<mode>>
    im_sent,            \* the messages sent on the websocket
    im_stack,           \* per task, the frames of the manager's coroutines it is in
    im_calls,           \* history: the calls made, and whether they have returned
    sb_running,         \* EventBus._running of a bus shared by several subscriptions
    sb_pos,             \* where each subscribe() call stands
    sb_stream,          \* the entries of "candles": ids 1..sb_stream
    sb_group,           \* per consumer group: created, last delivered id, pending ids
    sb_batch,           \* per subscription, the entries read and not yet handled
    sb_seen,            \* history: the entries given to each subscription's handler
    sb_at_stop          \* history: <<>> or <<loops running when stop() was called>>

asm_vars == <<feed, active_candles, previous_candles, last_minute_check,
              publish_failures,
              candles, handled, created, inbox, now>>

sub_vars == <<running, group_created, pending_at_restart, worker_failed>>

bus_vars == <<stream, last_id, group_last, pel, batch, log, sent, delivered,
              done, failed, sub_vars, result>>

det_vars == <<det_in, detection>>

an_vars == <<an_next, an_previous, signal_count, signals_stream, an_failed>>

st_vars == <<st_next, candles_table, st_log, redeliveries>>

pipe_vars == <<cstream, an_vars, st_vars>>

svc_vars == <<status, task, worker_running, bus_running, client_open, loop,
              ticks_unread, phase, time_passed, singled, reads_after_stop,
              at_cancel, closed_on>>

(* what the steps of the assembler, of the bus, of the detector and of the *)
(* pipeline leave alone                                                    *)
ing_vars == <<ws_state, producer_running, last_subscription, retry_waits, connections>>

ob_vars == <<ob_in, ob_out>>

im_vars == <<im_ws, im_lock, im_subs, im_sent, im_stack, im_calls>>

sb_vars == <<sb_running, sb_pos, sb_stream, sb_group, sb_batch, sb_seen, sb_at_stop>>

ext_vars == <<ob_vars, im_vars, sb_vars>>

not_asm_vars == <<bus_vars, det_vars, pipe_vars, svc_vars, ing_vars, ext_vars>>
not_bus_vars == <<asm_vars, det_vars, pipe_vars, svc_vars, ing_vars, ext_vars>>
not_det_vars == <<asm_vars, bus_vars, pipe_vars, svc_vars, ing_vars, ext_vars>>
not_pipe_vars == <<asm_vars, bus_vars, det_vars, svc_vars, ing_vars, ext_vars>>
not_svc_vars == <<asm_vars, bus_vars, det_vars, pipe_vars, ing_vars, ext_vars>>
not_ing_vars == <<asm_vars, bus_vars, det_vars, pipe_vars, svc_vars, ext_vars>>

not_ob_vars == <<asm_vars, bus_vars, det_vars, pipe_vars, svc_vars, ing_vars, im_vars,
                 sb_vars>>
not_im_vars == <<asm_vars, bus_vars, det_vars, pipe_vars, svc_vars, ing_vars, ob_vars,
                 sb_vars>>
not_sb_vars == <<asm_vars, bus_vars, det_vars, pipe_vars, svc_vars, ing_vars, ob_vars,
                 im_vars>>

vars == <<asm_vars, bus_vars, det_vars, pipe_vars, svc_vars, ing_vars, ext_vars>>

----------------------------------------------------------------------------
(* Bounds and program constants *)

MaxTicks == 4           \* ticks handled in one run
MinutesPerHour == 60    \* datetime.minute is the minute of the hour

Instruments == {"A", "B"}

None == <<>>            \* Python None, for Optional values
Some(x) == <<x>>
Val(o) == o[1]

Max(a, b) == IF a >= b THEN a ELSE b
Min(a, b) == IF a <= b THEN a ELSE b
SetMax(S) == CHOOSE x \in S : \A y \in S : y <= x
SetMin(S) == CHOOSE x \in S : \A y \in S : x <= y

(* datetime.minute of a minute-resolution time: only the minute of the hour *)
MinuteOf(t) == t % MinutesPerHour

(***************************************************************************)
(* Feed profiles.  A tick carries instrument_key, candle_time (index of    *)
(* its minute), timestamp (the minute the event timestamp lies in),        *)
(* raw_timestamp (position of the broker time inside the minute), ltp,     *)
(* volume and oi.  Each profile varies the fields one group of properties  *)
(* reads and holds the others fixed.                                       *)
(***************************************************************************)
(* a tick without order-book levels, one whose book is thin and wide *)
NoBook == [bid_prices |-> <<>>, bid_quantities |-> <<>>,
           ask_prices |-> <<>>, ask_quantities |-> <<>>]
PanicBook == [bid_prices |-> <<1>>, bid_quantities |-> <<1>>,
              ask_prices |-> <<2>>, ask_quantities |-> <<3>>]

RolloverFeed == [name |-> "rollover", instruments |-> {"A", "B"},
                 minutes |-> {0, 1, 2, MinutesPerHour}, skews |-> {0},
                 secs |-> {0}, ltps |-> {1}, volumes |-> {1}, ois |-> {1},
                 previous_closes |-> {None}, books |-> {NoBook}]
PriceFeed ==    [name |-> "price", instruments |-> {"A"},
                 minutes |-> {0, 1, 2}, skews |-> {0},
                 secs |-> {0}, ltps |-> {-1, 0, 1, 2}, volumes |-> {1}, ois |-> {1},
                 previous_closes |-> {None}, books |-> {NoBook}]
OiFeed ==       [name |-> "oi", instruments |-> {"A", "B"},
                 minutes |-> {0, 1, 2}, skews |-> {0},
                 secs |-> {0}, ltps |-> {1}, volumes |-> {1}, ois |-> {0, 2},
                 previous_closes |-> {None}, books |-> {NoBook}]
OrderFeed ==    [name |-> "order", instruments |-> {"A"},
                 minutes |-> {0, 1}, skews |-> {0},
                 secs |-> {0, 1}, ltps |-> {1, 2}, volumes |-> {1}, ois |-> {1},
                 previous_closes |-> {None}, books |-> {NoBook}]
Feeds == {RolloverFeed, PriceFeed, OiFeed, OrderFeed}

(* the feed of the running pipeline: prices that move, ticks with and      *)
(* without order-book levels                                               *)
LiveFeed ==     [name |-> "live", instruments |-> {"A"},
                 minutes |-> {0, 1}, skews |-> {0},
                 secs |-> {0}, ltps |-> {1, 2}, volumes |-> {1}, ois |-> {1},
                 previous_closes |-> {Some(1)}, books |-> {NoBook, PanicBook}]

(* TickReceivedEvent as the producers build it: candle_time is the minute  *)
(* of the tick; timestamp is the event time (skew 0: inside that minute,   *)
(* as mock_producer and from_upstox_feed set it).                          *)
TicksOf(f) ==
    { [instrument_key |-> i, candle_time |-> m, timestamp |-> m + k,
       raw_timestamp |-> s, ltp |-> p, volume |-> v, oi |-> o,
       previous_close |-> c, bid_prices |-> b.bid_prices,
       bid_quantities |-> b.bid_quantities, ask_prices |-> b.ask_prices,
       ask_quantities |-> b.ask_quantities] :
        i \in f.instruments, m \in f.minutes, k \in f.skews, s \in f.secs,
        p \in f.ltps, v \in f.volumes, o \in f.ois,
        c \in f.previous_closes, b \in f.books }

----------------------------------------------------------------------------
(* The order-book analyzer (analysis/orderbook_analyzer.py).       *)
(* Prices are integers, a Decimal quotient is the fraction <<num, den>>.   *)

MaxLevels == 4              \* bid levels of one snapshot
Prices == {1, 2}
Quantities == {0, 1, 2}
AskLengths == {0, 1}
top_levels == 3             \* [:3] and the padding loops of calculate_sup_res
threshold_multiplier == 5   \* default of detect_big_quantities

(* one side of a snapshot: the price list and the quantity list *)
Sides(lengths) ==
    UNION { { [prices |-> p, quantities |-> q] :
                p \in [1..n -> Prices], q \in [1..n -> Quantities] } : n \in lengths }

Books ==
    { [bid_prices |-> b.prices, bid_quantities |-> b.quantities,
       ask_prices |-> a.prices, ask_quantities |-> a.quantities] :
        b \in Sides(0..MaxLevels), a \in Sides(AskLengths) }

RECURSIVE SumSeq(_)
SumSeq(s) == IF s = <<>> THEN 0 ELSE Head(s) + SumSeq(Tail(s))

(* OrderBookLevel(price, quantity) for every index both lists have *)
Levels(prices, quantities) ==
    [i \in 1..Min(Len(prices), Len(quantities)) |->
        [price |-> prices[i], quantity |-> quantities[i]]]

(* sorted(levels, key=lambda x: x.quantity, reverse=True): the sort is     *)
(* stable, levels of equal quantity keep the order of the list             *)
QuantityRank(levels, i) ==
    1 + Cardinality({ j \in 1..Len(levels) : levels[j].quantity > levels[i].quantity })
      + Cardinality({ j \in 1..(i - 1) : levels[j].quantity = levels[i].quantity })

SortedByQuantityThenPrice(levels) ==
    [k \in 1..Len(levels) |->
        levels[CHOOSE i \in 1..Len(levels) :
            k = 1 + Cardinality({ j \in 1..Len(levels) :
                        \/ levels[j].quantity > levels[i].quantity
                        \/ /\ levels[j].quantity = levels[i].quantity
                           /\ levels[j].price > levels[i].price })
                  + Cardinality({ j \in 1..(i - 1) : levels[j] = levels[i] })]]

sorted_by_quantity(levels) ==
    [k \in 1..Len(levels) |->
        levels[CHOOSE i \in 1..Len(levels) : QuantityRank(levels, i) = k]]

(* [:3], then padded with OrderBookLevel(Decimal('0'), 0) to three levels *)
Top3(levels) ==
    [k \in 1..top_levels |->
        IF k <= Len(levels) THEN sorted_by_quantity(levels)[k]
        ELSE [price |-> 0, quantity |-> 0]]

(* sum(prices) / len(prices) over the prices > 0, Decimal('0') if none *)
Average(top) ==
    LET positive == SelectSeq([k \in 1..Len(top) |-> top[k].price], LAMBDA p : p > 0)
    IN  IF positive = <<>> THEN <<0, 1>> ELSE <<SumSeq(positive), Len(positive)>>

(* OrderBookAnalyzer.calculate_sup_res *)
calculate_sup_res(bid_prices, bid_quantities, ask_prices, ask_quantities) ==
    LET top_3_bids == Top3(Levels(bid_prices, bid_quantities))
        top_3_asks == Top3(Levels(ask_prices, ask_quantities))
    IN  [support_levels |-> top_3_bids, support_avg |-> Average(top_3_bids),
         resistance_levels |-> top_3_asks, resistance_avg |-> Average(top_3_asks)]

(* OrderBookAnalyzer.calculate_tbq_tsq *)
calculate_tbq_tsq_swapped(bid_quantities, ask_quantities) ==
    [tbq |-> SumSeq(ask_quantities), tsq |-> SumSeq(bid_quantities)]

calculate_tbq_tsq(bid_quantities, ask_quantities) ==
    [tbq |-> SumSeq(bid_quantities), tsq |-> SumSeq(ask_quantities)]

(* OrderBookAnalyzer.calculate_order_book_ratio: Decimal('0.5') for an    *)
(* empty book, tbq / (tbq + tsq) otherwise                                 *)
calculate_order_book_ratio(tbq, tsq) ==
    IF tbq + tsq = 0 THEN <<1, 2>> ELSE <<tbq, tbq + tsq>>

(* statistics.median as twice the median, to stay in the integers *)
TwiceMedian(quantities) ==
    LET n == Len(quantities)
        asc == [k \in 1..n |->
                  quantities[CHOOSE i \in 1..n :
                      k = 1 + Cardinality({ j \in 1..n : quantities[j] < quantities[i] })
                            + Cardinality({ j \in 1..(i - 1) :
                                              quantities[j] = quantities[i] })]]
    IN  IF n % 2 = 1 THEN 2 * asc[(n + 1) \div 2]
        ELSE asc[n \div 2] + asc[(n \div 2) + 1]

(* OrderBookAnalyzer.detect_big_quantities: the quantities above          *)
(* median * threshold_multiplier                                           *)
detect_big_quantities(quantities) ==
    IF quantities = <<>> THEN 0
    ELSE Cardinality({ i \in 1..Len(quantities) :
            2 * quantities[i] > TwiceMedian(quantities) * threshold_multiplier })

(* OrderBookAnalyzer.calculate_spread: (best_ask - best_bid) / best_bid *)
calculate_spread(best_bid, best_ask) ==
    IF best_bid = 0 THEN <<0, 1>> ELSE <<best_ask - best_bid, best_bid>>

(* OrderBookAnalyzer.analyze_order_book *)
analyze_order_book(bid_prices, bid_quantities, ask_prices, ask_quantities) ==
    LET sup_res == calculate_sup_res(bid_prices, bid_quantities,
                                     ask_prices, ask_quantities)
        totals == calculate_tbq_tsq(bid_quantities, ask_quantities)
        best_bid == IF bid_prices # <<>> THEN bid_prices[1] ELSE 0
        best_ask == IF ask_prices # <<>> THEN ask_prices[1] ELSE 0
    IN  [support_levels |-> sup_res.support_levels,
         support |-> sup_res.support_avg,
         resistance_levels |-> sup_res.resistance_levels,
         resistance |-> sup_res.resistance_avg,
         tbq |-> totals.tbq,
         tsq |-> totals.tsq,
         order_book_ratio |-> calculate_order_book_ratio(totals.tbq, totals.tsq),
         bid_ask_spread |-> calculate_spread(best_bid, best_ask),
         big_bid_count |-> detect_big_quantities(bid_quantities),
         big_ask_count |-> detect_big_quantities(ask_quantities)]

InitOrderBook ==
    /\ ob_in = None
    /\ ob_out = None

(* one snapshot is analyzed *)
AnalyzeOrderBook ==
    /\ ob_out = None
    /\ \E book \in Books :
         /\ ob_in' = Some(book)
         /\ ob_out' = Some(analyze_order_book(book.bid_prices, book.bid_quantities,
                                              book.ask_prices, book.ask_quantities))
    /\ UNCHANGED not_ob_vars

----------------------------------------------------------------------------
(* CandleData *)

(* CandleData.__init__ ; acc is the identity of the new object: the        *)
(* position in `handled` of the tick that created it                       *)
CandleData(instrument_key, candle_time, acc) ==
    [instrument_key |-> instrument_key, candle_time |-> candle_time,
     open |-> None, high |-> None, low |-> None, close |-> None,
     previous_close |-> None,
     volume |-> 0, oi |-> 0, tick_count |-> 0,
     bid_prices_list |-> <<>>, bid_quantities_list |-> <<>>,
     ask_prices_list |-> <<>>, ask_quantities_list |-> <<>>,
     acc |-> acc, added |-> <<>>]

(* add_tick that sets close on the first tick only *)
add_tick_close_of_first(c, tick) ==
    LET first == c.open = None
        keep(old) == IF first THEN Some(tick.ltp) ELSE old
    IN  [c EXCEPT !.tick_count = @ + 1,
                  !.open = keep(c.open),
                  !.close = keep(c.close),
                  !.high = Some(Max(Val(keep(c.high)), tick.ltp)),
                  !.low = Some(Min(Val(keep(c.low)), tick.ltp)),
                  !.volume = tick.volume,
                  !.oi = tick.oi,
                  !.added = Append(@, tick)]

(* add_tick that never raises high above the first price *)
add_tick_high_not_raised(c, tick) ==
    LET first == c.open = None
        keep(old) == IF first THEN Some(tick.ltp) ELSE old
    IN  [c EXCEPT !.tick_count = @ + 1,
                  !.open = keep(c.open),
                  !.close = Some(tick.ltp),
                  !.high = keep(c.high),
                  !.low = Some(Min(Val(keep(c.low)), tick.ltp)),
                  !.volume = tick.volume,
                  !.oi = tick.oi,
                  !.added = Append(@, tick)]

(* CandleData.add_tick; `added` records the ticks merged into the object *)
add_tick(c, tick) ==
    LET first == c.open = None
        open0 == IF first THEN Some(tick.ltp) ELSE c.open
        high0 == IF first THEN Some(tick.ltp) ELSE c.high
        low0  == IF first THEN Some(tick.ltp) ELSE c.low
        snapshot == tick.bid_prices # <<>> /\ tick.ask_prices # <<>>
    IN  [c EXCEPT !.tick_count = @ + 1,
                  !.open = open0,
                  !.close = Some(tick.ltp),
                  !.high = Some(Max(Val(high0), tick.ltp)),
                  !.low = Some(Min(Val(low0), tick.ltp)),
                  !.previous_close = IF first THEN tick.previous_close ELSE @,
                  !.volume = tick.volume,
                  !.oi = tick.oi,
                  !.bid_prices_list = IF snapshot THEN Append(@, tick.bid_prices) ELSE @,
                  !.bid_quantities_list =
                        IF snapshot THEN Append(@, tick.bid_quantities) ELSE @,
                  !.ask_prices_list = IF snapshot THEN Append(@, tick.ask_prices) ELSE @,
                  !.ask_quantities_list =
                        IF snapshot THEN Append(@, tick.ask_quantities) ELSE @,
                  !.added = Append(@, tick)]

----------------------------------------------------------------------------
(* CandleBuilder *)

_get_candle_key(instrument_key, candle_time) == <<instrument_key, candle_time>>

KeyOf(c) == _get_candle_key(c.instrument_key, c.candle_time)

HasKey(act, key) == \E i \in 1..Len(act) : KeyOf(act[i]) = key

(* _get_or_create_candle: the dict with the entry for the key present *)
_get_or_create_candle(act, instrument_key, candle_time, acc) ==
    IF HasKey(act, _get_candle_key(instrument_key, candle_time))
    THEN act
    ELSE Append(act, CandleData(instrument_key, candle_time, acc))

(* _handle_tick that adds a tick only to the accumulator it creates *)
_handle_tick_drops_repeats(act, tick, acc) ==
    LET key == _get_candle_key(tick.instrument_key, tick.candle_time)
    IN  IF HasKey(act, key) THEN act
        ELSE Append(act, add_tick(CandleData(tick.instrument_key, tick.candle_time, acc),
                                  tick))

(* _handle_tick: look the accumulator up (or create it) and add the tick *)
_handle_tick(act, tick, acc) ==
    LET act1 == _get_or_create_candle(act, tick.instrument_key, tick.candle_time, acc)
        key == _get_candle_key(tick.instrument_key, tick.candle_time)
    IN  [i \in 1..Len(act1) |->
            IF KeyOf(act1[i]) = key THEN add_tick(act1[i], tick) ELSE act1[i]]

(* calculate_oi_change with the operands of the difference swapped *)
calculate_oi_change_swapped(current_oi, previous_oi) ==
    IF previous_oi = 0
    THEN <<Some(0), Some(<<0, 1>>)>>
    ELSE <<Some(previous_oi - current_oi),
           Some(<<previous_oi - current_oi, previous_oi>>)>>

(* MetricsCalculator.calculate_oi_change: <<change, change_pct>>, the      *)
(* percentage kept as the exact fraction <<numerator, denominator>>        *)
calculate_oi_change(current_oi, previous_oi) ==
    IF previous_oi = 0
    THEN <<Some(0), Some(<<0, 1>>)>>
    ELSE <<Some(current_oi - previous_oi),
           Some(<<current_oi - previous_oi, previous_oi>>)>>

(* the OI part of _build_candle_event *)
OiChange(candle, prev) ==
    LET prev_candle == prev[candle.instrument_key]
    IN  IF prev_candle # None /\ Val(prev_candle).oi > 0
        THEN calculate_oi_change(candle.oi, Val(prev_candle).oi)
        ELSE <<None, None>>

(* _calculate_order_book_metrics: {} (here None) for an accumulator with   *)
(* no snapshot, the analysis of the last snapshot otherwise                *)
_calculate_order_book_metrics(candle) ==
    IF candle.bid_prices_list = <<>> THEN None
    ELSE LET last == Len(candle.bid_prices_list)
         IN  Some(analyze_order_book(candle.bid_prices_list[last],
                                     candle.bid_quantities_list[last],
                                     candle.ask_prices_list[last],
                                     candle.ask_quantities_list[last]))

(* ob_metrics.get(name): None for a key the dictionary does not have *)
MetricsGet(ob_metrics, name) ==
    IF ob_metrics = None THEN None ELSE Some(Val(ob_metrics)[name])

(* _build_candle_event with the volume-weighted price standing in for     *)
(* vwap (with one unit of volume per tick, the open for a rising minute)  *)
_build_candle_event_vwap_of_open(candle, prev) ==
    [instrument_key |-> candle.instrument_key,
     candle_timestamp |-> candle.candle_time,
     open |-> Val(candle.open), high |-> Val(candle.high),
     low |-> Val(candle.low), close |-> Val(candle.close),
     previous_close |-> candle.previous_close,
     volume |-> candle.volume, oi |-> candle.oi,
     oi_change |-> OiChange(candle, prev)[1],
     oi_change_pct |-> OiChange(candle, prev)[2],
     vwap |-> Val(candle.open),
     support |-> MetricsGet(_calculate_order_book_metrics(candle), "support"),
     resistance |-> MetricsGet(_calculate_order_book_metrics(candle), "resistance"),
     order_book_ratio |->
         MetricsGet(_calculate_order_book_metrics(candle), "order_book_ratio"),
     bid_ask_spread |->
         MetricsGet(_calculate_order_book_metrics(candle), "bid_ask_spread"),
     gamma_spike |-> 0,
     tick_count |-> candle.tick_count]

(* _build_candle_event: the CandleCompletedEvent of an accumulator; the    *)
(* ticks carry no Greeks, for which _calculate_gamma_spike is Decimal('0') *)
_build_candle_event(candle, prev) ==
    [instrument_key |-> candle.instrument_key,
     candle_timestamp |-> candle.candle_time,
     open |-> Val(candle.open), high |-> Val(candle.high),
     low |-> Val(candle.low), close |-> Val(candle.close),
     previous_close |-> candle.previous_close,
     volume |-> candle.volume, oi |-> candle.oi,
     oi_change |-> OiChange(candle, prev)[1],
     oi_change_pct |-> OiChange(candle, prev)[2],
     vwap |-> Val(candle.close),
     support |-> MetricsGet(_calculate_order_book_metrics(candle), "support"),
     resistance |-> MetricsGet(_calculate_order_book_metrics(candle), "resistance"),
     order_book_ratio |->
         MetricsGet(_calculate_order_book_metrics(candle), "order_book_ratio"),
     bid_ask_spread |->
         MetricsGet(_calculate_order_book_metrics(candle), "bid_ask_spread"),
     gamma_spike |-> 0,
     tick_count |-> candle.tick_count]

(* one stream entry of "candles": the event, and as history the            *)
(* accumulator it was built from and the position in `handled` of the tick *)
(* whose handling published it                                             *)
Entry(candle, prev, at) ==
    [event |-> _build_candle_event(candle, prev),
     acc |-> candle.acc, added |-> candle.added, at |-> at]

(* a check that completes the candles of earlier minutes only *)
IsDue_earlier_only(candle, current_time) ==
    MinuteOf(current_time) > MinuteOf(candle.candle_time)

(* whether the loop of _check_and_complete_candles completes this candle   *)
IsDue(candle, current_time) ==
    MinuteOf(current_time) # MinuteOf(candle.candle_time)

(* a loop that counts a candle as completed before its publish: the       *)
(* accumulator whose publish raised is deleted all the same                *)
RECURSIVE CompleteLoop_completed_first(_, _, _, _, _, _)
CompleteLoop_completed_first(i, act, current_time, failing, at, st) ==
    IF i > Len(act) THEN st
    ELSE
      LET candle == act[i] IN
      IF IsDue(candle, current_time) /\ candle.acc \notin failing
      THEN CompleteLoop_completed_first(i + 1, act, current_time, failing, at,
             [previous |-> [st.previous EXCEPT ![candle.instrument_key] = Some(candle)],
              candles |-> Append(st.candles, Entry(candle, st.previous, at)),
              completed |-> st.completed \cup {KeyOf(candle)}])
      ELSE IF IsDue(candle, current_time)
      THEN CompleteLoop_completed_first(i + 1, act, current_time, failing, at,
             [st EXCEPT !.completed = @ \cup {KeyOf(candle)}])
      ELSE CompleteLoop_completed_first(i + 1, act, current_time, failing, at, st)

(* the for loop of _check_and_complete_candles from position i on:         *)
(* st = [previous, candles, completed]; the publish of the accumulators in *)
(* `failing` raises, which the loop's except clause logs                   *)
RECURSIVE CompleteLoop(_, _, _, _, _, _)
CompleteLoop(i, act, current_time, failing, at, st) ==
    IF i > Len(act) THEN st
    ELSE
      LET candle == act[i] IN
      IF IsDue(candle, current_time) /\ candle.acc \notin failing
      THEN CompleteLoop(i + 1, act, current_time, failing, at,
             [previous |-> [st.previous EXCEPT ![candle.instrument_key] = Some(candle)],
              candles |-> Append(st.candles, Entry(candle, st.previous, at)),
              completed |-> st.completed \cup {KeyOf(candle)}])
      ELSE CompleteLoop(i + 1, act, current_time, failing, at, st)

(* a closing loop that deletes nothing *)
RemoveCompleted_none(act, completed_keys) == act

(* the closing loop of _check_and_complete_candles: del of the completed keys *)
RemoveCompleted(act, completed_keys) ==
    LET keep(c) == KeyOf(c) \notin completed_keys
    IN  SelectSeq(act, keep)

(* _check_and_complete_candles: [active, previous, candles] afterwards *)
_check_and_complete_candles(act, prev, out, current_time, failing, at) ==
    LET st == CompleteLoop(1, act, current_time, failing, at,
                           [previous |-> prev, candles |-> out, completed |-> {}])
    IN  [active |-> RemoveCompleted(act, st.completed),
         previous |-> st.previous,
         candles |-> st.candles]

(* CandleBuilder.start.tick_handler, the handler the bus calls per tick *)
tick_handler(tick, failing) ==
    LET at == Len(handled) + 1
        act1 == _handle_tick(active_candles, tick, at)
        checks == last_minute_check # Some(MinuteOf(tick.candle_time))
        res == _check_and_complete_candles(act1, previous_candles, candles,
                                           tick.timestamp, failing, at)
    IN  /\ handled' = Append(handled, tick)
        /\ created' = created \cup {act1[i].acc : i \in 1..Len(act1)}
        /\ IF checks
           THEN /\ active_candles' = res.active
                /\ previous_candles' = res.previous
                /\ candles' = res.candles
                /\ last_minute_check' = Some(MinuteOf(tick.candle_time))
                /\ publish_failures' = publish_failures \cup
                        { [acc |-> a, at |-> at] :
                            a \in { b \in failing :
                                      \E j \in 1..Len(act1) :
                                          /\ act1[j].acc = b
                                          /\ IsDue(act1[j], tick.timestamp) } }
           ELSE /\ active_candles' = act1
                /\ UNCHANGED <<previous_candles, candles, last_minute_check,
                               publish_failures>>

----------------------------------------------------------------------------
(* Events on the wire (BaseEvent.to_json / from_json) *)

(* a Decimal: coefficient and number of fractional digits (Decimal('1.50') *)
(* is coef 150, exp 2); a JSON text is a record of field -> characters     *)
DigitChar == <<"0", "1", "2", "3", "4", "5", "6", "7", "8", "9">>
DigitVal(ch) == CHOOSE d \in 0..9 : DigitChar[d + 1] = ch

RECURSIVE NatDigits(_)
NatDigits(n) ==
    IF n < 10 THEN <<DigitChar[n + 1]>>
    ELSE Append(NatDigits(n \div 10), DigitChar[(n % 10) + 1])

RECURSIVE DigitsNat(_)
DigitsNat(ds) ==
    IF ds = <<>> THEN 0
    ELSE 10 * DigitsNat(SubSeq(ds, 1, Len(ds) - 1)) + DigitVal(ds[Len(ds)])

RECURSIVE PadLeft(_, _)
PadLeft(ds, n) == IF Len(ds) >= n THEN ds ELSE PadLeft(<<"0">> \o ds, n)

(* str(Decimal): all digits of the coefficient, the point before the last  *)
(* exp of them                                                             *)
DecimalStr(d) ==
    LET ds == PadLeft(NatDigits(d.coef), d.exp + 1)
        cut == Len(ds) - d.exp
    IN  IF d.exp = 0 THEN ds
        ELSE SubSeq(ds, 1, cut) \o <<".">> \o SubSeq(ds, cut + 1, Len(ds))

(* Decimal(str) *)
ParseDecimal(str) ==
    LET points == { n \in 1..Len(str) : str[n] = "." }
        isDigit(ch) == ch # "."
    IN  [coef |-> DigitsNat(SelectSeq(str, isDigit)),
         exp |-> IF points = {} THEN 0 ELSE Len(str) - SetMin(points)]

(* a serializer that writes the Decimal as a JSON number: 1.50 becomes 1.5 *)
RECURSIVE DropZeros(_)
DropZeros(d) ==
    IF d.exp > 0 /\ d.coef % 10 = 0
    THEN DropZeros([coef |-> d.coef \div 10, exp |-> d.exp - 1])
    ELSE d

to_json_as_number(event) ==
    [instrument_key |-> event.instrument_key,
     ltp |-> DecimalStr(DropZeros(event.ltp)),
     volume |-> NatDigits(event.volume)]

(* BaseEvent.to_json (model_dump_json): Decimal as its str, int as digits *)
to_json(event) ==
    [instrument_key |-> event.instrument_key,
     ltp |-> DecimalStr(event.ltp),
     volume |-> NatDigits(event.volume)]

EventFields == {"instrument_key", "ltp", "volume"}

(* BaseEvent.from_json (model_validate_json): <<event>>, or <<>> when the  *)
(* validation raises                                                       *)
from_json(json) ==
    IF DOMAIN json # EventFields THEN None
    ELSE Some([instrument_key |-> json.instrument_key,
               ltp |-> ParseDecimal(json.ltp),
               volume |-> DigitsNat(json.volume)])

(* the default "{}" that subscribe decodes for an entry without "data" *)
EmptyJson == [missing |-> "data"]

----------------------------------------------------------------------------
(* EventBus: one stream and one consumer group with one consumer *)

MaxPublish == 3         \* entries added to the stream in one run
MaxStreamLength == 1    \* EventBus.max_stream_length of the run
StreamNodeEntries == 2  \* most entries held by one node of the stream
BatchSize == 2          \* EventBus.batch_size of the run

BusEvents ==
    { [instrument_key |-> "A", ltp |-> [coef |-> c, exp |-> e], volume |-> v] :
        c \in {5, 150}, e \in {0, 2}, v \in {12} }

InitBus ==
    /\ stream = <<>>
    /\ last_id = 0
    /\ group_last = 0
    /\ pel = {}
    /\ batch = <<>>
    /\ log = <<>>
    /\ sent = <<>>
    /\ delivered = {}
    /\ done = {}
    /\ failed = {}
    /\ running = FALSE
    /\ group_created = FALSE
    /\ pending_at_restart = {}
    /\ worker_failed = {}
    /\ result = None

(* XADD ... MAXLEN ~ max_stream_length: the streams the append may leave.  *)
(* Approximate trimming drops whole nodes from the oldest end while the    *)
(* rest still holds max_stream_length entries; a node holds from 1 to      *)
(* StreamNodeEntries entries, so the trim stops within one node of the cap *)
Trimmed_never(s) == {s}

Trimmed(s) ==
    { SubSeq(s, k + 1, Len(s)) :
        k \in { j \in 0..Max(0, Len(s) - MaxStreamLength) :
                  Len(s) - j < MaxStreamLength + StreamNodeEntries } }

(* XREADGROUP ... ">" COUNT batch_size: the oldest entries never delivered *)
(* to the group, at most batch_size of them                                *)
NewEntries(s, last, count) ==
    LET fresh == SelectSeq(s, LAMBDA en : en.id > last)
    IN  SubSeq(fresh, 1, Min(count, Len(fresh)))

(* the pending list after the try/except around one entry: XACK only when  *)
(* nothing raised                                                          *)
AfterEntry_ack_always(p, id, raised) == p \ {id}

AfterEntry(p, id, raised) == IF raised THEN p ELSE p \ {id}

(* EventBus.publish: the outcomes of one call. When xadd raises the call    *)
(* logs and re-raises: nothing is added and no id is returned              *)
publish_append_on_failure(s, lid, event, xadd_raises) ==
    { [stream |-> t, last_id |-> lid + 1,
       result |-> [raised |-> xadd_raises,
                   event_id |-> IF xadd_raises THEN None ELSE Some(lid + 1)]] :
        t \in Trimmed(Append(s, [id |-> lid + 1, data |-> to_json(event)])) }

publish(s, lid, event, xadd_raises) ==
    IF xadd_raises
    THEN { [stream |-> s, last_id |-> lid,
            result |-> [raised |-> TRUE, event_id |-> None]] }
    ELSE { [stream |-> t, last_id |-> lid + 1,
            result |-> [raised |-> FALSE, event_id |-> Some(lid + 1)]] :
             t \in Trimmed(Append(s, [id |-> lid + 1, data |-> to_json(event)])) }

(* a caller publishes an event and gets its entry id *)
Publish ==
    /\ last_id < MaxPublish
    /\ \E event \in BusEvents :
         \E out \in publish(stream, last_id, event, FALSE) :
           /\ stream' = out.stream
           /\ last_id' = out.last_id
           /\ result' = Some(out.result)
           /\ sent' = Append(sent, Some(event))
    /\ UNCHANGED <<group_last, pel, batch, log, delivered, done, failed, sub_vars>>
    /\ UNCHANGED not_bus_vars

(* a caller publishes an event and the append raises *)
PublishFails ==
    /\ last_id < MaxPublish
    /\ \E event \in BusEvents :
         \E out \in publish(stream, last_id, event, TRUE) :
           /\ stream' = out.stream
           /\ last_id' = out.last_id
           /\ result' = Some(out.result)
    /\ UNCHANGED <<group_last, pel, batch, log, sent, delivered, done, failed,
                   sub_vars>>
    /\ UNCHANGED not_bus_vars

(* another client adds an entry that carries no "data" field *)
AddForeignEntry ==
    /\ last_id < MaxPublish
    /\ stream' \in Trimmed(Append(stream, [id |-> last_id + 1, data |-> EmptyJson]))
    /\ sent' = Append(sent, None)
    /\ last_id' = last_id + 1
    /\ UNCHANGED <<group_last, pel, batch, log, delivered, done, failed, sub_vars,
                   result>>
    /\ UNCHANGED not_bus_vars

(* EventBus._ensure_consumer_group: XGROUP CREATE ... "0" MKSTREAM; the     *)
(* BUSYGROUP error of an existing group is swallowed                       *)
_ensure_consumer_group_recreate(exists, last, pending) ==
    [group_created |-> TRUE, group_last |-> 0, pel |-> {}]

_ensure_consumer_group(exists, last, pending) ==
    IF exists
    THEN [group_created |-> TRUE, group_last |-> last, pel |-> pending]
    ELSE [group_created |-> TRUE, group_last |-> 0, pel |-> {}]

(* EventBus.subscribe up to the loop: the group is ensured, _running set *)
Subscribe ==
    /\ ~running
    /\ LET g == _ensure_consumer_group(group_created, group_last, pel)
       IN  /\ group_created' = g.group_created
           /\ group_last' = g.group_last
           /\ pel' = g.pel
    /\ running' = TRUE
    /\ pending_at_restart' = pending_at_restart \cup pel
    /\ UNCHANGED <<stream, last_id, batch, log, sent, delivered, done, failed,
                   worker_failed, result>>
    /\ UNCHANGED not_bus_vars

(* EventBus.stop: the loop ends at its next `while self._running` test *)
Stop ==
    /\ running
    /\ batch = <<>>
    /\ running' = FALSE
    /\ UNCHANGED <<stream, last_id, group_last, pel, batch, log, sent, delivered,
                   done, failed, group_created, pending_at_restart,
                   worker_failed, result>>
    /\ UNCHANGED not_bus_vars

(* the subscription task is cancelled (or the process dies) while a batch  *)
(* is being processed: the entries not yet handled are never acknowledged  *)
Cancelled ==
    /\ running
    /\ batch # <<>>
    /\ running' = FALSE
    /\ batch' = <<>>
    /\ UNCHANGED <<stream, last_id, group_last, pel, log, sent, delivered,
                   done, failed, group_created, pending_at_restart,
                   worker_failed, result>>
    /\ UNCHANGED not_bus_vars

(* subscribe: one xreadgroup that returns entries *)
ReadGroup ==
    /\ running
    /\ batch = <<>>
    /\ NewEntries(stream, group_last, BatchSize) # <<>>
    /\ batch' = NewEntries(stream, group_last, BatchSize)
    /\ group_last' = batch'[Len(batch')].id
    /\ pel' = pel \cup { batch'[k].id : k \in 1..Len(batch') }
    /\ delivered' = delivered \cup { batch'[k].id : k \in 1..Len(batch') }
    /\ UNCHANGED <<stream, last_id, log, sent, done, failed, running,
                   group_created, pending_at_restart, worker_failed, result>>
    /\ UNCHANGED not_bus_vars

(* subscribe: the body of the inner for loop for the next entry of the     *)
(* batch; handlerRaises is what the handler does with the event            *)
ProcessEntry(handlerRaises) ==
    LET entry == Head(batch)
        event == from_json(entry.data)
        raised == event = None \/ handlerRaises
    IN  /\ log' = IF event = None THEN log
                  ELSE Append(log, [id |-> entry.id, event |-> Val(event)])
        /\ pel' = AfterEntry(pel, entry.id, raised)
        /\ done' = IF raised THEN done ELSE done \cup {entry.id}
        /\ failed' = IF raised THEN failed \cup {entry.id} ELSE failed
        /\ batch' = Tail(batch)
        /\ UNCHANGED <<stream, last_id, group_last, sent, delivered, running,
                       group_created, pending_at_restart, result>>
        /\ UNCHANGED not_bus_vars

(* the entry decodes and the handler returns: the entry is acknowledged *)
HandlerReturns ==
    /\ batch # <<>>
    /\ from_json(Head(batch).data) # None
    /\ ProcessEntry(FALSE)
    /\ UNCHANGED worker_failed

(* the entry decodes and the handler raises *)
HandlerRaises ==
    /\ batch # <<>>
    /\ from_json(Head(batch).data) # None
    /\ ProcessEntry(TRUE)
    /\ UNCHANGED worker_failed

(* event_type.from_json raises: the handler is not called *)
DecodeRaises ==
    /\ batch # <<>>
    /\ from_json(Head(batch).data) = None
    /\ ProcessEntry(FALSE)
    /\ UNCHANGED worker_failed

(* The handlers the workers give to subscribe, when the worker's own step  *)
(* fails: what the handler reports to the subscribe loop                   *)

(* CandleBuilder: the publish of a finalized candle raises inside          *)
(* _check_and_complete_candles, whose except clause logs it                *)
CandleBuilder_tick_handler(publish_raises) ==
    [raised |-> FALSE, published |-> ~publish_raises]

(* AnalysisConsumer._handle_candle: the whole body is in try/except        *)
(* Exception, which logs                                                   *)
AnalysisConsumer_handle_candle(publish_raises) ==
    [raised |-> FALSE, published |-> ~publish_raises]

(* DatabaseService.save_candle: the row, or None after a rollback for a    *)
(* duplicate key and for any other error alike                             *)
InsertOutcomes == {"ok", "duplicate", "error"}

save_candle(insert) == IF insert = "ok" THEN Some("row") ELSE None

(* StorageConsumer._handle_candle *)
StorageConsumer_handle_candle(insert) ==
    [raised |-> FALSE, saved |-> save_candle(insert) # None]

(* a worker's handler is called on the next entry and its step fails *)
WorkerFails ==
    /\ batch # <<>>
    /\ from_json(Head(batch).data) # None
    /\ \E out \in { CandleBuilder_tick_handler(TRUE),
                     AnalysisConsumer_handle_candle(TRUE),
                     StorageConsumer_handle_candle("error") } :
         ProcessEntry(out.raised)
    /\ worker_failed' = worker_failed \cup {Head(batch).id}

----------------------------------------------------------------------------
(* SellerStateDetector. Percentages and ratios are held in units of 1/10000 *)
(* (0.003 is 30), prices as integers, a quotient as the exact fraction      *)
(* <<numerator, denominator>> with a positive denominator                   *)

oi_decrease_threshold == -30        \* -0.003
price_increase_threshold == 50      \* 0.005
gamma_spike_threshold == 3000       \* 0.30
order_book_panic_threshold == 3500  \* 0.35
spread_threshold == 50              \* 0.005
vwap_deviation_threshold == 100     \* 0.01
panic_score_buy_threshold == 60     \* 60.0

Abs(x) == IF x < 0 THEN 0 - x ELSE x

(* Python truthiness of an Optional[Decimal]: None and zero are false *)
Truthy(x) == x # None /\ Val(x) # 0

(* a fraction compared with a number of 1/10000 *)
FracGreater(f, units) == f[1] * 10000 > units * f[2]

FracLeq(f, g) == f[1] * g[2] <= g[1] * f[2]

FracMin(f, g) == IF FracLeq(f, g) THEN f ELSE g

(* detect_short_covering that takes a missing price change for a rise *)
detect_short_covering_missing_is_rise(oi_change_pct, price_change_pct) ==
    IF oi_change_pct = None THEN FALSE
    ELSE IF price_change_pct = None
    THEN Val(oi_change_pct) < oi_decrease_threshold
    ELSE /\ Val(oi_change_pct) < oi_decrease_threshold
         /\ FracGreater(Val(price_change_pct), price_increase_threshold)

detect_short_covering(oi_change_pct, price_change_pct) ==
    IF oi_change_pct = None \/ price_change_pct = None
    THEN FALSE
    ELSE /\ Val(oi_change_pct) < oi_decrease_threshold
         /\ FracGreater(Val(price_change_pct), price_increase_threshold)

detect_gamma_spike(gamma_spike) ==
    IF gamma_spike = None THEN FALSE
    ELSE Abs(Val(gamma_spike)) > gamma_spike_threshold

detect_order_book_panic(order_book_ratio) ==
    IF order_book_ratio = None THEN FALSE
    ELSE Val(order_book_ratio) < order_book_panic_threshold

(* detect_liquidity_drying that takes a missing spread for a wide one *)
detect_liquidity_drying_missing_is_wide(bid_ask_spread) ==
    IF bid_ask_spread = None THEN TRUE
    ELSE Val(bid_ask_spread) > spread_threshold

detect_liquidity_drying(bid_ask_spread) ==
    IF bid_ask_spread = None THEN FALSE
    ELSE Val(bid_ask_spread) > spread_threshold

(* price is a Decimal here: detect calls it only for a truthy price *)
detect_strong_buying(price, vwap) ==
    IF vwap = None \/ Val(vwap) = 0 THEN FALSE
    ELSE FracGreater(<<price - Val(vwap), Val(vwap)>>, vwap_deviation_threshold)

(* calculate_panic_score without the cap *)
calculate_panic_score_uncapped(short_covering, gamma_spike, order_book_panic, liquidity_drying, strong_buying, oi_change_pct, order_book_ratio) ==
    LET sc == IF short_covering
              THEN 30 + (IF Truthy(oi_change_pct) /\ Abs(Val(oi_change_pct)) > 100
                         THEN 10 ELSE 0)
              ELSE 0
        gs == IF gamma_spike THEN 25 ELSE 0
        ob == IF order_book_panic
              THEN 20 + (IF Truthy(order_book_ratio) /\ Val(order_book_ratio) < 2500
                         THEN 10 ELSE 0)
              ELSE 0
        ld == IF liquidity_drying THEN 15 ELSE 0
        sb == IF strong_buying THEN 10 ELSE 0
    IN  sc + gs + ob + ld + sb

(* calculate_panic_score: `if oi_change_pct and ...` and                   *)
(* `if order_book_ratio:` are truthiness tests                             *)
calculate_panic_score(short_covering, gamma_spike, order_book_panic, liquidity_drying, strong_buying, oi_change_pct, order_book_ratio) ==
    LET sc == IF short_covering
              THEN 30 + (IF Truthy(oi_change_pct) /\ Abs(Val(oi_change_pct)) > 100
                         THEN 10 ELSE 0)
              ELSE 0
        gs == IF gamma_spike THEN 25 ELSE 0
        ob == IF order_book_panic
              THEN 20 + (IF Truthy(order_book_ratio) /\ Val(order_book_ratio) < 2500
                         THEN 10 ELSE 0)
              ELSE 0
        ld == IF liquidity_drying THEN 15 ELSE 0
        sb == IF strong_buying THEN 10 ELSE 0
    IN  Min(sc + gs + ob + ld + sb, 100)

(* determine_state_and_recommendation that forgets `and not short_covering` *)
determine_state_and_recommendation_any_two(panic_score, short_covering, signals_count) ==
    IF panic_score >= panic_score_buy_threshold
    THEN [state |-> "SELLER_PANIC", recommendation |-> "BUY",
          confidence |-> FracMin(<<9, 10>>, <<panic_score, 100>>)]
    ELSE IF signals_count >= 2
    THEN [state |-> "PROFIT_BOOKING", recommendation |-> "WAIT",
          confidence |-> <<6, 10>>]
    ELSE [state |-> "NEUTRAL", recommendation |-> "WAIT", confidence |-> <<5, 10>>]

(* determine_state_and_recommendation whose default branch uses the rest   *)
(* of the vocabulary                                                       *)
determine_state_and_recommendation_direction(panic_score, short_covering, signals_count) ==
    IF panic_score >= panic_score_buy_threshold
    THEN [state |-> "SELLER_PANIC", recommendation |-> "BUY",
          confidence |-> FracMin(<<9, 10>>, <<panic_score, 100>>)]
    ELSE IF signals_count >= 2 /\ ~short_covering
    THEN [state |-> "PROFIT_BOOKING", recommendation |-> "WAIT",
          confidence |-> <<6, 10>>]
    ELSE IF signals_count <= 1
    THEN [state |-> "NEUTRAL", recommendation |-> "WAIT", confidence |-> <<5, 10>>]
    ELSE [state |-> "SELLER_DIRECTION", recommendation |-> "SELL",
          confidence |-> <<5, 10>>]

determine_state_and_recommendation(panic_score, short_covering, signals_count) ==
    IF panic_score >= panic_score_buy_threshold
    THEN [state |-> "SELLER_PANIC", recommendation |-> "BUY",
          confidence |-> FracMin(<<9, 10>>, <<panic_score, 100>>)]
    ELSE IF signals_count >= 2 /\ ~short_covering
    THEN [state |-> "PROFIT_BOOKING", recommendation |-> "WAIT",
          confidence |-> <<6, 10>>]
    ELSE IF signals_count <= 1
    THEN [state |-> "NEUTRAL", recommendation |-> "WAIT", confidence |-> <<5, 10>>]
    ELSE [state |-> "NEUTRAL", recommendation |-> "WAIT", confidence |-> <<5, 10>>]

(* the signal list of detect: the names of the features that fired, in the *)
(* order detect appends them                                               *)
SignalList(flags) ==
    LET names == <<"SHORT_COVERING", "GAMMA_SPIKE", "ORDER_BOOK_PANIC",
                   "LIQUIDITY_DRYING", "STRONG_BUYING">>
    IN  SelectSeq(names, LAMBDA n : flags[n])

(* SellerStateDetector.detect *)
detect(in) ==
    LET price_change_pct ==
            IF Truthy(in.price) /\ Truthy(in.previous_close)
               /\ Val(in.previous_close) > 0
            THEN Some(<<Val(in.price) - Val(in.previous_close), Val(in.previous_close)>>)
            ELSE None
        short_covering == detect_short_covering(in.oi_change_pct, price_change_pct)
        gamma_spike_det == detect_gamma_spike(in.gamma_spike)
        ob_panic == detect_order_book_panic(in.order_book_ratio)
        liquidity_dry == detect_liquidity_drying(in.bid_ask_spread)
        strong_buy == IF Truthy(in.price)
                      THEN detect_strong_buying(Val(in.price), in.vwap)
                      ELSE FALSE
        flags == [n \in {"SHORT_COVERING", "GAMMA_SPIKE", "ORDER_BOOK_PANIC",
                         "LIQUIDITY_DRYING", "STRONG_BUYING"} |->
                    CASE n = "SHORT_COVERING" -> short_covering
                      [] n = "GAMMA_SPIKE" -> gamma_spike_det
                      [] n = "ORDER_BOOK_PANIC" -> ob_panic
                      [] n = "LIQUIDITY_DRYING" -> liquidity_dry
                      [] n = "STRONG_BUYING" -> strong_buy]
        signals == SignalList(flags)
        panic_score == calculate_panic_score(short_covering, gamma_spike_det,
                                             ob_panic, liquidity_dry, strong_buy,
                                             in.oi_change_pct, in.order_book_ratio)
        verdict == determine_state_and_recommendation(panic_score, short_covering,
                                                      Len(signals))
    IN  [state |-> verdict.state,
         confidence |-> verdict.confidence,
         panic_score |-> panic_score,
         signals |-> signals,
         recommendation |-> verdict.recommendation,
         short_covering |-> short_covering,
         gamma_spike_detected |-> gamma_spike_det,
         order_book_panic |-> ob_panic,
         liquidity_drying |-> liquidity_dry,
         strong_buying |-> strong_buy]

(* the arguments detect is called with: each may be missing; the values    *)
(* sit on and around every threshold                                       *)
DetectorInputs ==
    [oi_change_pct : {None} \cup { Some(x) : x \in {-101, -100, -31, -30, 0} },
     price : {None} \cup { Some(x) : x \in {0, 200, 202, 203} },
     previous_close : {None} \cup { Some(x) : x \in {-200, 0, 200} },
     vwap : {None} \cup { Some(x) : x \in {0, 200} },
     gamma_spike : {None} \cup { Some(x) : x \in {3000, 3001, -3001} },
     order_book_ratio : {None} \cup { Some(x) : x \in {0, 2499, 2500, 3499, 3500} },
     bid_ask_spread : {None} \cup { Some(x) : x \in {50, 51} }]

(* detect() called with no argument: every input defaults to None *)
NoInputs ==
    [oi_change_pct |-> None, price |-> None, previous_close |-> None,
     vwap |-> None, gamma_spike |-> None, order_book_ratio |-> None,
     bid_ask_spread |-> None]

InitDetector ==
    /\ det_in = NoInputs
    /\ detection = None

(* a caller runs the detector on one set of inputs; the detector keeps no  *)
(* state between calls, so one call per run shows all it can do            *)
Detect ==
    /\ detection = None
    /\ \E in \in DetectorInputs :
         /\ det_in' = in
         /\ detection' = Some(detect(in))
    /\ UNCHANGED not_det_vars

----------------------------------------------------------------------------
(* The pipeline behind the assembler: the "candles" stream read by the     *)
(* analyzer (group "analyzers") and by the persister (group                *)
(* "storage_consumers"), each entry delivered in stream order              *)

MaxCandles == 3         \* candle events published in one run
MaxRedeliveries == 1    \* entries handed to the persister again in one run

(* the candle events of a run: a quiet candle and one with short covering  *)
(* and a gamma spike, for two instruments; the assembler can publish the   *)
(* same (instrument, minute) twice                                         *)
PipelineCandles ==
    { [instrument_key |-> i, candle_timestamp |-> 0,
       close |-> 200, previous_close |-> Some(200), oi_change_pct |-> Some(0),
       vwap |-> Some(200), gamma_spike |-> None,
       order_book_ratio |-> Some(5000), bid_ask_spread |-> Some(0)] : i \in Instruments }
    \cup
    { [instrument_key |-> i, candle_timestamp |-> 0,
       close |-> 203, previous_close |-> Some(200), oi_change_pct |-> Some(-101),
       vwap |-> Some(203), gamma_spike |-> Some(3001),
       order_book_ratio |-> Some(5000), bid_ask_spread |-> Some(0)] : i \in Instruments }

(* the arguments _handle_candle gives to detect *)
DetectorArgs(candle) ==
    [oi_change_pct |-> candle.oi_change_pct,
     price |-> Some(candle.close),
     previous_close |-> candle.previous_close,
     vwap |-> candle.vwap,
     gamma_spike |-> candle.gamma_spike,
     order_book_ratio |-> candle.order_book_ratio,
     bid_ask_spread |-> candle.bid_ask_spread]

(* the SignalGeneratedEvent built from a candle and its detection *)
SignalEvent(candle, d) ==
    [instrument_key |-> candle.instrument_key,
     candle_timestamp |-> candle.candle_timestamp,
     entry_price |-> candle.close,
     detection |-> d]

(* _handle_candle that publishes its signal twice *)
_handle_candle_publishes_twice(candle, previous, count, publish_raises) ==
    LET signal == SignalEvent(candle, detect(DetectorArgs(candle)))
    IN  IF publish_raises
        THEN [published |-> <<>>, previous |-> previous,
              signal_count |-> count, raised |-> FALSE]
        ELSE [published |-> <<signal, signal>>,
              previous |-> [previous EXCEPT ![candle.instrument_key] = Some(candle)],
              signal_count |-> count + 1, raised |-> FALSE]

(* _handle_candle that measures the price change against the close of the *)
(* candle it stored for the instrument                                     *)
_handle_candle_uses_previous(candle, previous, count, publish_raises) ==
    LET prev_candle == previous[candle.instrument_key]
        args == IF prev_candle = None THEN DetectorArgs(candle)
                ELSE [DetectorArgs(candle) EXCEPT
                        !.previous_close = Some(Val(prev_candle).close)]
        signal == SignalEvent(candle, detect(args))
    IN  IF publish_raises
        THEN [published |-> <<>>, previous |-> previous,
              signal_count |-> count, raised |-> FALSE]
        ELSE [published |-> <<signal>>,
              previous |-> [previous EXCEPT ![candle.instrument_key] = Some(candle)],
              signal_count |-> count + 1, raised |-> FALSE]

(* AnalysisConsumer._handle_candle: detect, build the signal, publish it,  *)
(* count it, store the candle; prev_candle is looked up and not used; an   *)
(* exception anywhere is logged by the except clause                       *)
_handle_candle(candle, previous, count, publish_raises) ==
    LET signal == SignalEvent(candle, detect(DetectorArgs(candle)))
    IN  IF publish_raises
        THEN [published |-> <<>>, previous |-> previous,
              signal_count |-> count, raised |-> FALSE]
        ELSE [published |-> <<signal>>,
              previous |-> [previous EXCEPT ![candle.instrument_key] = Some(candle)],
              signal_count |-> count + 1, raised |-> FALSE]

(* the columns of the Candle model, and the keyword arguments save_candle  *)
(* constructs a Candle with (the OHLC and metric names are the same on     *)
(* both sides and stand here as "open", "close", "tick_count")             *)
CandleColumns ==
    {"id", "instrument_key", "timestamp", "open", "close", "tick_count", "created_at"}

SaveCandleKwargs ==
    {"instrument_key", "candle_timestamp", "open", "close", "tick_count"}

(* the declarative constructor raises TypeError for a keyword that is not  *)
(* an attribute of the class                                               *)
CandleInitRaises == ~(SaveCandleKwargs \subseteq CandleColumns)

(* the row save_candle would add *)
CandleRow(candle_event) ==
    [instrument_key |-> candle_event.instrument_key,
     timestamp |-> candle_event.candle_timestamp,
     close |-> candle_event.close]

RowKey(row) == <<row.instrument_key, row.timestamp>>

(* session.commit of one added row under uq_candle_instrument_time *)
commit(table, row, db_error) ==
    IF db_error THEN "error"
    ELSE IF \E n \in 1..Len(table) : RowKey(table[n]) = RowKey(row)
    THEN "duplicate"
    ELSE "ok"

(* save_candle whose Candle takes its keywords and whose table has no      *)
(* unique constraint                                                       *)
DatabaseService_save_candle_no_constraint(table, candle_event, db_error) ==
    [table |-> Append(table, CandleRow(candle_event)),
     saved |-> Some(CandleRow(candle_event)), raised |-> FALSE]

(* DatabaseService.save_candle: the whole body is in try; IntegrityError   *)
(* and any other exception roll back and return None                       *)
DatabaseService_save_candle(table, candle_event, db_error) ==
    IF CandleInitRaises
    THEN [table |-> table, saved |-> None, raised |-> FALSE]
    ELSE IF commit(table, CandleRow(candle_event), db_error) = "ok"
    THEN [table |-> Append(table, CandleRow(candle_event)),
          saved |-> Some(CandleRow(candle_event)), raised |-> FALSE]
    ELSE [table |-> table, saved |-> None, raised |-> FALSE]

(* StorageConsumer._handle_candle: save_candle inside try/except Exception *)
StorageConsumer_store(table, candle, db_error) ==
    LET out == DatabaseService_save_candle(table, candle, db_error)
    IN  [table |-> out.table, saved |-> out.saved # None, raised |-> FALSE,
         save_raised |-> out.raised]

InitPipeline ==
    /\ cstream = <<>>
    /\ an_next = 0
    /\ an_previous = [i \in Instruments |-> None]
    /\ signal_count = 0
    /\ signals_stream = <<>>
    /\ an_failed = {}
    /\ st_next = 0
    /\ candles_table = <<>>
    /\ st_log = <<>>
    /\ redeliveries = 0

(* the assembler publishes a candle event to "candles" *)
PublishCandle ==
    /\ Len(cstream) < MaxCandles
    /\ \E candle \in PipelineCandles : cstream' = Append(cstream, candle)
    /\ UNCHANGED <<an_vars, st_vars>>
    /\ UNCHANGED not_pipe_vars

(* the analyzer's subscription hands it the next entry of "candles" *)
Analyze(publish_raises) ==
    LET idx == an_next + 1
        out == _handle_candle(cstream[idx], an_previous, signal_count, publish_raises)
    IN  /\ an_next' = idx
        /\ an_previous' = out.previous
        /\ signal_count' = out.signal_count
        /\ signals_stream' = signals_stream \o [n \in 1..Len(out.published) |->
                                    [candle_id |-> idx, event |-> out.published[n]]]
        /\ an_failed' = IF publish_raises THEN an_failed \cup {idx} ELSE an_failed
        /\ UNCHANGED <<cstream, st_vars>>
        /\ UNCHANGED not_pipe_vars

AnalyzeCandle ==
    /\ an_next < Len(cstream)
    /\ Analyze(FALSE)

(* the same, with the publish to "signals" raising *)
AnalyzeCandlePublishFails ==
    /\ an_next < Len(cstream)
    /\ Analyze(TRUE)

(* the persister's subscription hands it entry idx of "candles" *)
Store(idx, redelivery) ==
    \E db_error \in BOOLEAN :
      LET out == StorageConsumer_store(candles_table, cstream[idx], db_error)
      IN  /\ candles_table' = out.table
          /\ st_log' = Append(st_log,
                 [candle_id |-> idx, before |-> candles_table, after |-> out.table,
                  raised |-> out.raised \/ out.save_raised,
                  acked |-> ~(out.raised \/ out.save_raised),
                  redelivery |-> redelivery])

StoreCandle ==
    /\ st_next < Len(cstream)
    /\ Store(st_next + 1, FALSE)
    /\ st_next' = st_next + 1
    /\ UNCHANGED <<cstream, an_vars, redeliveries>>
    /\ UNCHANGED not_pipe_vars

(* an entry the persister handled before is delivered to it again *)
StoreRedelivered ==
    /\ redeliveries < MaxRedeliveries
    /\ \E idx \in 1..st_next : Store(idx, TRUE)
    /\ redeliveries' = redeliveries + 1
    /\ UNCHANGED <<cstream, an_vars, st_next>>
    /\ UNCHANGED not_pipe_vars

----------------------------------------------------------------------------
(* The ServiceManager: four services on one EventBus                       *)

MaxUnread == 2          \* entries of "ticks" waiting for the assembler
MaxReadsAfterStop == 2  \* blocking reads counted after a worker's stop()

(* the service names of start_producer .. start_storage_consumer, in the   *)
(* order start_all creates them and stop_all walks self.services           *)
ServiceOrder ==
    <<"upstox_producer", "candle_builder", "analysis_consumer", "storage_consumer">>

Services == {ServiceOrder[n] : n \in 1..Len(ServiceOrder)}

Consumers == Services \ {"upstox_producer"}

(* the loops the consumers run: one subscribe per consumer name, and the   *)
(* persister's print_stats                                                 *)
SubscribeLoops == {"builder_1", "analyzer_1", "storage_candles", "storage_signals"}

Loops == SubscribeLoops \cup {"storage_stats"}

LoopOwner(l) ==
    CASE l = "builder_1" -> "candle_builder"
      [] l = "analyzer_1" -> "analysis_consumer"
      [] OTHER -> "storage_consumer"

LoopsOf(w) == {l \in Loops : LoopOwner(l) = w}

(* the worker of service w had stop() called *)
StopCalled(w) == singled = Some([service |-> w, how |-> "stop"])

(* a task that has finished, whichever way *)
TaskDone(t) == t \in {"done", "raised", "cancelled"}

InitServices ==
    /\ status = [w \in Services |-> "stopped"]
    /\ task = [w \in Services |-> "none"]
    /\ worker_running = [w \in Services |-> FALSE]
    /\ bus_running = FALSE
    /\ client_open = FALSE
    /\ loop = [l \in Loops |-> "idle"]
    /\ ticks_unread = 0
    /\ phase = "up"
    /\ time_passed = FALSE
    /\ singled = None
    /\ reads_after_stop = [l \in SubscribeLoops |-> 0]
    /\ at_cancel = None
    /\ closed_on = {}

(* start_<service>: the task is created, the status is RUNNING, and the    *)
(* worker's start() connects the shared bus, sets its own flag and, for a  *)
(* consumer, enters subscribe, which sets the bus's flag                   *)
StartService(w) ==
    /\ phase = "up"
    /\ task[w] = "none"
    /\ task' = [task EXCEPT ![w] = "running"]
    /\ status' = [status EXCEPT ![w] = "running"]
    /\ worker_running' = [worker_running EXCEPT ![w] = TRUE]
    /\ client_open' = TRUE
    /\ bus_running' = IF w \in Consumers THEN TRUE ELSE bus_running
    /\ loop' = [l \in Loops |-> IF LoopOwner(l) = w /\ w \in Consumers
                                THEN "looping" ELSE loop[l]]
    /\ UNCHANGED <<ticks_unread, phase, time_passed, singled,
                   reads_after_stop, at_cancel, closed_on>>
    /\ UNCHANGED not_svc_vars

(* the producer's start() returns before it connects: a dependency, the    *)
(* token or the instrument list is missing; start_producer's await ends    *)
(* and leaves the status RUNNING                                           *)
ProducerReturnsEarly ==
    /\ phase = "up"
    /\ task["upstox_producer"] = "none"
    /\ task' = [task EXCEPT !["upstox_producer"] = "done"]
    /\ status' = [status EXCEPT !["upstox_producer"] = "running"]
    /\ UNCHANGED <<worker_running, bus_running, client_open, loop, ticks_unread,
                   phase, time_passed, singled, reads_after_stop, at_cancel,
                   closed_on>>
    /\ UNCHANGED not_svc_vars

(* the worker's start() raises before its loop (the connect or the group   *)
(* creation fails): start_<service> records ERROR and returns; nothing in  *)
(* ServiceManager starts the service again                                 *)
StartFails(w) ==
    /\ phase = "up"
    /\ task[w] = "none"
    /\ task' = [task EXCEPT ![w] = "raised"]
    /\ status' = [status EXCEPT ![w] = "error"]
    /\ UNCHANGED <<worker_running, bus_running, client_open, loop, ticks_unread,
                   phase, time_passed, singled, reads_after_stop, at_cancel,
                   closed_on>>
    /\ UNCHANGED not_svc_vars

(* the producer publishes a tick; publish connects when client is None *)
ProducerTick ==
    /\ task["upstox_producer"] = "running"
    /\ worker_running["upstox_producer"]
    /\ ticks_unread < MaxUnread
    /\ ticks_unread' = ticks_unread + 1
    /\ client_open' = TRUE
    /\ UNCHANGED <<status, task, worker_running, bus_running, loop, phase,
                   time_passed, singled, reads_after_stop, at_cancel, closed_on>>
    /\ UNCHANGED not_svc_vars

(* the loops a worker's disconnect takes the connection from: those of     *)
(* other services, still looping, whose task nobody has cancelled          *)
LoopsUsingClient(w) ==
    {l \in SubscribeLoops : LoopOwner(l) # w /\ loop[l] = "looping"
                              /\ task[LoopOwner(l)] = "running"}

(* the producer finds its _running False after a message: it leaves both   *)
(* loops and its cleanup disconnects the bus                               *)
ProducerLoopExit ==
    /\ task["upstox_producer"] = "running"
    /\ ~worker_running["upstox_producer"]
    /\ task' = [task EXCEPT !["upstox_producer"] = "done"]
    /\ client_open' = FALSE
    /\ closed_on' = closed_on \cup LoopsUsingClient("upstox_producer")
    /\ UNCHANGED <<status, worker_running, bus_running, loop, ticks_unread, phase,
                   time_passed, singled, reads_after_stop, at_cancel>>
    /\ UNCHANGED not_svc_vars

(* the task of a consumer once loop l has ended: start() returns when      *)
(* subscribe returns, the persister's when all three of its tasks have     *)
TaskAfter(w, loops) ==
    IF \A l \in LoopsOf(w) : loops[l] \notin {"idle", "looping"}
    THEN "done" ELSE "running"

(* one turn of subscribe's while loop with the flag set: a blocking read   *)
(* (the assembler's takes a tick), or, with client None, the error branch  *)
(* and its sleep                                                           *)
LoopRead(l) ==
    /\ l \in SubscribeLoops
    /\ loop[l] = "looping"
    /\ task[LoopOwner(l)] = "running"
    /\ bus_running
    /\ StopCalled(LoopOwner(l)) => reads_after_stop[l] < MaxReadsAfterStop
    /\ reads_after_stop' =
         IF StopCalled(LoopOwner(l))
         THEN [reads_after_stop EXCEPT ![l] = @ + 1] ELSE reads_after_stop
    /\ ticks_unread' =
         IF l = "builder_1" /\ client_open /\ ticks_unread > 0
         THEN ticks_unread - 1 ELSE ticks_unread
    /\ UNCHANGED <<status, task, worker_running, bus_running, client_open, loop,
                   phase, time_passed, singled, at_cancel, closed_on>>
    /\ UNCHANGED not_svc_vars

(* the while test finds the bus's flag False: the loop ends and its        *)
(* finally clears the flag; print_stats tests the persister's own flag     *)
LoopExit(l) ==
    /\ loop[l] = "looping"
    /\ task[LoopOwner(l)] = "running"
    /\ IF l \in SubscribeLoops THEN ~bus_running ELSE ~worker_running[LoopOwner(l)]
    /\ loop' = [loop EXCEPT ![l] = "flag"]
    /\ bus_running' = IF l \in SubscribeLoops THEN FALSE ELSE bus_running
    /\ task' = [task EXCEPT ![LoopOwner(l)] = TaskAfter(LoopOwner(l), loop')]
    /\ UNCHANGED <<status, worker_running, client_open, ticks_unread, phase,
                   time_passed, singled, reads_after_stop, at_cancel, closed_on>>
    /\ UNCHANGED not_svc_vars

(* <worker>.stop(): the worker's own flag, nothing else *)
stop(w) ==
    /\ phase = "up"
    /\ task[w] = "running"
    /\ singled = None
    /\ worker_running' = [worker_running EXCEPT ![w] = FALSE]
    /\ singled' = Some([service |-> w, how |-> "stop"])
    /\ UNCHANGED <<status, task, bus_running, client_open, loop, ticks_unread,
                   phase, time_passed, reads_after_stop, at_cancel, closed_on>>
    /\ UNCHANGED not_svc_vars

(* info.task.cancel() on one service's task *)
CancelTask(w) ==
    /\ phase = "up"
    /\ task[w] = "running"
    /\ singled = None
    /\ task' = [task EXCEPT ![w] = "cancel_requested"]
    /\ singled' = Some([service |-> w, how |-> "cancel"])
    /\ UNCHANGED <<status, worker_running, bus_running, client_open, loop,
                   ticks_unread, phase, time_passed, reads_after_stop,
                   at_cancel, closed_on>>
    /\ UNCHANGED not_svc_vars

(* the producer's task takes its CancelledError: in the connection block   *)
(* it breaks and its cleanup disconnects the bus; in the sleep of the      *)
(* except branch the error leaves start() and start_producer records       *)
(* STOPPED                                                                 *)
ProducerCancelled ==
    /\ task["upstox_producer"] = "cancel_requested"
    /\ \E in_backoff \in BOOLEAN :
         IF in_backoff
         THEN /\ task' = [task EXCEPT !["upstox_producer"] = "cancelled"]
              /\ status' = [status EXCEPT !["upstox_producer"] = "stopped"]
              /\ UNCHANGED <<client_open, closed_on>>
         ELSE /\ task' = [task EXCEPT !["upstox_producer"] = "done"]
              /\ client_open' = FALSE
              /\ closed_on' = closed_on \cup LoopsUsingClient("upstox_producer")
              /\ UNCHANGED status
    /\ UNCHANGED <<worker_running, bus_running, loop, ticks_unread, phase,
                   time_passed, singled, reads_after_stop, at_cancel>>
    /\ UNCHANGED not_svc_vars

(* a consumer's task takes its CancelledError: every loop of it that is    *)
(* still looping ends, subscribe's finally clears the bus's flag; in the   *)
(* blocking read subscribe breaks and start() returns, in the sleep of the *)
(* error branch (client None) the error leaves start() and the start_<>    *)
(* coroutine records STOPPED; the persister's start() catches it           *)
ConsumerCancelled(w) ==
    /\ w \in Consumers
    /\ task[w] = "cancel_requested"
    /\ loop' = [l \in Loops |-> IF LoopOwner(l) = w /\ loop[l] = "looping"
                                THEN "cancelled" ELSE loop[l]]
    /\ bus_running' = IF \E l \in SubscribeLoops : LoopOwner(l) = w /\ loop[l] = "looping"
                      THEN FALSE ELSE bus_running
    /\ IF ~client_open /\ w # "storage_consumer"
       THEN /\ task' = [task EXCEPT ![w] = "cancelled"]
            /\ status' = [status EXCEPT ![w] = "stopped"]
       ELSE /\ task' = [task EXCEPT ![w] = "done"]
            /\ UNCHANGED status
    /\ UNCHANGED <<worker_running, client_open, ticks_unread, phase, time_passed,
                   singled, reads_after_stop, at_cancel, closed_on>>
    /\ UNCHANGED not_svc_vars

(* SIGINT or SIGTERM: signal_handler sets the shutdown event *)
signal_handler ==
    /\ phase = "up"
    /\ \A w \in Services : task[w] # "none"
    /\ phase' = "signalled"
    /\ time_passed' = FALSE
    /\ UNCHANGED <<status, task, worker_running, bus_running, client_open, loop,
                   ticks_unread, singled, reads_after_stop, at_cancel, closed_on>>
    /\ UNCHANGED not_svc_vars

(* time passes between the signal and start_all's wake-up *)
TimePasses ==
    /\ phase = "signalled"
    /\ ~time_passed
    /\ time_passed' = TRUE
    /\ UNCHANGED <<status, task, worker_running, bus_running, client_open, loop,
                   ticks_unread, phase, singled, reads_after_stop, at_cancel,
                   closed_on>>
    /\ UNCHANGED not_svc_vars

(* stop_all, first loop: every task that is not done is cancelled, in the  *)
(* order of self.services, with no await in between                        *)
stop_all_cancel ==
    /\ phase = "signalled"
    /\ phase' = "stopping"
    /\ task' = [w \in Services |->
                  IF TaskDone(task[w]) THEN task[w] ELSE "cancel_requested"]
    /\ status' = [w \in Services |->
                    IF TaskDone(task[w]) THEN status[w] ELSE "stopping"]
    /\ at_cancel' = Some([unread |-> ticks_unread, waited |-> time_passed,
                          order |-> SelectSeq(ServiceOrder,
                                              LAMBDA w : ~TaskDone(task[w]))])
    /\ UNCHANGED <<worker_running, bus_running, client_open, loop, ticks_unread,
                   time_passed, singled, reads_after_stop, closed_on>>
    /\ UNCHANGED not_svc_vars

(* stop_all, after the gather of all tasks: the bus is disconnected *)
stop_all_disconnect ==
    /\ phase = "stopping"
    /\ \A w \in Services : TaskDone(task[w])
    /\ phase' = "closed"
    /\ client_open' = FALSE
    /\ UNCHANGED <<status, task, worker_running, bus_running, loop, ticks_unread,
                   time_passed, singled, reads_after_stop, at_cancel, closed_on>>
    /\ UNCHANGED not_svc_vars

----------------------------------------------------------------------------
(* The ingestor's reconnect loop: UpstoxLiveProducer.start, and            *)
(* UpstoxProducer.start, which differs only in raising where the live      *)
(* producer finds no URI                                                   *)

MaxRetries == 3         \* sleeps recorded since the last connection
MaxConnections == 2     \* connections established in one run

reconnect_delay == 5    \* asyncio.sleep(5); UpstoxProducer._reconnect_delay
auth_retry_delay == 10  \* asyncio.sleep(10) when get_websocket_auth returns nothing

(* self.instrument_keys, as load_instruments left it *)
instrument_keys == Instruments

InitProducer ==
    /\ ws_state = "top"
    /\ producer_running = TRUE
    /\ last_subscription = None
    /\ retry_waits = <<>>
    /\ connections = 0

(* get_websocket_auth returns no URI: sleep(10) and continue *)
AuthFails ==
    /\ ws_state = "top"
    /\ producer_running
    /\ Len(retry_waits) < MaxRetries
    /\ ws_state' = "sleeping"
    /\ retry_waits' = Append(retry_waits, auth_retry_delay)
    /\ UNCHANGED <<producer_running, last_subscription, connections>>
    /\ UNCHANGED not_ing_vars

(* websockets.connect succeeds *)
Connected ==
    /\ ws_state = "top"
    /\ producer_running
    /\ connections < MaxConnections
    /\ ws_state' = "connected"
    /\ connections' = connections + 1
    /\ retry_waits' = <<>>
    /\ last_subscription' = None
    /\ UNCHANGED producer_running
    /\ UNCHANGED not_ing_vars

(* subscribe_instruments: one "sub" message with self.instrument_keys *)
subscribe_instruments ==
    /\ ws_state = "connected"
    /\ ws_state' = "listening"
    /\ last_subscription' = Some(instrument_keys)
    /\ UNCHANGED <<producer_running, retry_waits, connections>>
    /\ UNCHANGED not_ing_vars

(* anything raises inside the try (the connect, the send, recv on a lost   *)
(* connection): the except branch sleeps the fixed delay                   *)
ConnectionError ==
    /\ ws_state \in {"top", "connected", "listening"}
    /\ ws_state = "top" => producer_running
    /\ Len(retry_waits) < MaxRetries
    /\ ws_state' = "sleeping"
    /\ retry_waits' = Append(retry_waits, reconnect_delay)
    /\ UNCHANGED <<producer_running, last_subscription, connections>>
    /\ UNCHANGED not_ing_vars

(* the sleep ends: back to the while test *)
SleepDone ==
    /\ ws_state = "sleeping"
    /\ ws_state' = "top"
    /\ UNCHANGED <<producer_running, last_subscription, retry_waits, connections>>
    /\ UNCHANGED not_ing_vars

(* UpstoxLiveProducer.stop *)
producer_stop ==
    /\ producer_running
    /\ producer_running' = FALSE
    /\ UNCHANGED <<ws_state, last_subscription, retry_waits, connections>>
    /\ UNCHANGED not_ing_vars

(* a while test finds _running False: after a message in the inner loop,   *)
(* or at the top; the cleanup disconnects and start() returns              *)
ProducerExit ==
    /\ ~producer_running
    /\ ws_state \in {"top", "listening"}
    /\ ws_state' = "returned"
    /\ UNCHANGED <<producer_running, last_subscription, retry_waits, connections>>
    /\ UNCHANGED not_ing_vars

----------------------------------------------------------------------------
(* The instrument manager (managers/instrument_manager.py): its coroutines *)
(* run as tasks of one event loop and share self._lock, an asyncio.Lock,   *)
(* which has no owner and is not reentrant.                                *)

MaxCalls == 2           \* calls of the manager's coroutines in one run

Tasks == {"t1", "t2"}
FeedModes == {"ltpc", "full"}
KeyLists == {<<"A">>, <<"A", "B">>}
ManagerOps == {"subscribe", "unsubscribe", "change_mode_websocket"}

(* the frame of a coroutine that has been called: it waits for the lock   *)
Frame(op, keys, mode) ==
    [op |-> op, keys |-> keys, mode |-> mode, stage |-> "lock",
     todo |-> IF op = "change_mode_websocket" THEN <<"unsubscribe", "subscribe">>
              ELSE <<>>]

Top(t) == im_stack[t][Len(im_stack[t])]

SetTop(t, frame) == [im_stack EXCEPT ![t] = [@ EXCEPT ![Len(@)] = frame]]

(* add_instrument for every key *)
add_instrument(subs, keys, mode) ==
    [k \in DOMAIN subs |->
        IF \E n \in 1..Len(keys) : keys[n] = k THEN Some(mode) ELSE subs[k]]

(* remove_instrument for every key *)
remove_instrument(subs, keys) ==
    [k \in DOMAIN subs |->
        IF \E n \in 1..Len(keys) : keys[n] = k THEN None ELSE subs[k]]

InitInstruments ==
    /\ im_ws = FALSE
    /\ im_lock = FALSE
    /\ im_subs = [k \in {"A", "B"} |-> None]
    /\ im_sent = <<>>
    /\ im_stack = [t \in Tasks |-> <<>>]
    /\ im_calls = <<>>

(* InstrumentManager.set_websocket *)
set_websocket ==
    /\ ~im_ws
    /\ im_ws' = TRUE
    /\ UNCHANGED <<im_lock, im_subs, im_sent, im_stack, im_calls>>
    /\ UNCHANGED not_im_vars

(* a task calls one of the coroutines *)
CallManager(t) ==
    /\ im_stack[t] = <<>>
    /\ Len(im_calls) < MaxCalls
    /\ \E op \in ManagerOps, keys \in KeyLists, mode \in FeedModes :
         /\ im_stack' = [im_stack EXCEPT ![t] = <<Frame(op, keys, mode)>>]
         /\ im_calls' = Append(im_calls,
                [task |-> t, op |-> op, keys |-> keys, mode |-> mode,
                 websocket |-> im_ws, sent |-> Len(im_sent), returned |-> FALSE])
    /\ UNCHANGED <<im_ws, im_lock, im_subs, im_sent>>
    /\ UNCHANGED not_im_vars

(* `async with self._lock`: entered when the lock is free, whoever holds it *)
AcquireLock(t) ==
    /\ im_stack[t] # <<>>
    /\ Top(t).stage = "lock"
    /\ ~im_lock
    /\ im_lock' = TRUE
    /\ im_stack' = SetTop(t, [Top(t) EXCEPT !.stage = "locked"])
    /\ UNCHANGED <<im_ws, im_subs, im_sent, im_calls>>
    /\ UNCHANGED not_im_vars

(* the body under the lock, up to its next await: subscribe and           *)
(* unsubscribe return early without a websocket, else update the tracking *)
(* and send their message; change_mode_websocket calls unsubscribe, then  *)
(* (after the sleep) subscribe with the new mode                          *)
Body(t) ==
    /\ im_stack[t] # <<>>
    /\ Top(t).stage = "locked"
    /\ LET f == Top(t) IN
       CASE f.op = "subscribe" ->
              /\ im_subs' = IF im_ws THEN add_instrument(im_subs, f.keys, f.mode)
                            ELSE im_subs
              /\ im_sent' = IF im_ws
                            THEN Append(im_sent, [method |-> "sub", mode |-> Some(f.mode),
                                                  instrumentKeys |-> f.keys])
                            ELSE im_sent
              /\ im_stack' = SetTop(t, [f EXCEPT !.stage = "done"])
         [] f.op = "unsubscribe" ->
              /\ im_subs' = IF im_ws THEN remove_instrument(im_subs, f.keys) ELSE im_subs
              /\ im_sent' = IF im_ws
                            THEN Append(im_sent, [method |-> "unsub", mode |-> None,
                                                  instrumentKeys |-> f.keys])
                            ELSE im_sent
              /\ im_stack' = SetTop(t, [f EXCEPT !.stage = "done"])
         [] f.op = "change_mode_websocket" ->
              /\ im_stack' =
                    IF f.todo = <<>> THEN SetTop(t, [f EXCEPT !.stage = "done"])
                    ELSE [im_stack EXCEPT ![t] =
                            Append([@ EXCEPT ![Len(@)] = [f EXCEPT !.todo = Tail(@)]],
                                   Frame(Head(f.todo), f.keys, f.mode))]
              /\ UNCHANGED <<im_subs, im_sent>>
    /\ UNCHANGED <<im_ws, im_lock, im_calls>>
    /\ UNCHANGED not_im_vars

(* the end of the `async with` block: the lock is released and the         *)
(* coroutine returns to its caller                                         *)
ReturnFromCall(t) ==
    /\ im_stack[t] # <<>>
    /\ Top(t).stage = "done"
    /\ im_lock' = FALSE
    /\ im_stack' = [im_stack EXCEPT ![t] = SubSeq(@, 1, Len(@) - 1)]
    /\ im_calls' = IF Len(im_stack[t]) > 1 THEN im_calls
                   ELSE [n \in 1..Len(im_calls) |->
                           IF im_calls[n].task = t /\ ~im_calls[n].returned
                           THEN [im_calls[n] EXCEPT !.returned = TRUE]
                           ELSE im_calls[n]]
    /\ UNCHANGED <<im_ws, im_subs, im_sent>>
    /\ UNCHANGED not_im_vars

----------------------------------------------------------------------------
(* One EventBus shared by several subscribe() calls: the loops test the    *)
(* one flag self._running; every group of the "candles" stream has its own *)
(* last-delivered id and pending list.                                     *)

MaxEntries == 2         \* entries published to "candles" in one run

Subscriptions == {"analyzer_1", "storage_candles"}
Groups == {"analyzers", "storage_consumers"}

(* one group name for both consumers *)
GroupOf_shared(l) == "analyzers"

(* the consumer_group each consumer passes to subscribe *)
GroupOf(l) == IF l = "analyzer_1" THEN "analyzers" ELSE "storage_consumers"

Looping(l) == sb_pos[l] \in {"reading", "handling"}

(* `while self._running`, reached without an await in between: another    *)
(* read, or out through the finally clause (which clears the flag that is  *)
(* clear already)                                                          *)
LoopTest == IF sb_running THEN "reading" ELSE "exited"

InitSharedBus ==
    /\ sb_running = FALSE
    /\ sb_pos = [l \in Subscriptions |-> "idle"]
    /\ sb_stream = 0
    /\ sb_group = [g \in Groups |-> [created |-> FALSE, last |-> 0, pel |-> {}]]
    /\ sb_batch = [l \in Subscriptions |-> <<>>]
    /\ sb_seen = [l \in Subscriptions |-> <<>>]
    /\ sb_at_stop = None

(* EventBus.publish of a candle: XADD gives the entry the next id *)
PublishEntry ==
    /\ sb_stream < MaxEntries
    /\ sb_stream' = sb_stream + 1
    /\ UNCHANGED <<sb_running, sb_pos, sb_group, sb_batch, sb_seen, sb_at_stop>>
    /\ UNCHANGED not_sb_vars

(* subscribe is called: connect and _ensure_consumer_group (XGROUP CREATE  *)
(* at id "0", BUSYGROUP ignored) are awaited                               *)
SubscribeCall(l) ==
    /\ sb_pos[l] = "idle"
    /\ sb_pos' = [sb_pos EXCEPT ![l] = "starting"]
    /\ sb_group' = [sb_group EXCEPT ![GroupOf(l)] =
                        IF @.created THEN @ ELSE [created |-> TRUE, last |-> 0, pel |-> {}]]
    /\ UNCHANGED <<sb_running, sb_stream, sb_batch, sb_seen, sb_at_stop>>
    /\ UNCHANGED not_sb_vars

(* subscribe: `self._running = True`, and the first test of the loop *)
SubscribeArm(l) ==
    /\ sb_pos[l] = "starting"
    /\ sb_running' = TRUE
    /\ sb_pos' = [sb_pos EXCEPT ![l] = "reading"]
    /\ UNCHANGED <<sb_stream, sb_group, sb_batch, sb_seen, sb_at_stop>>
    /\ UNCHANGED not_sb_vars

(* xreadgroup(streams={stream: ">"}) returns: the entries never delivered  *)
(* to the group, up to batch_size, or nothing after the block time         *)
ReadNew(l) ==
    /\ sb_pos[l] = "reading"
    /\ LET g == GroupOf(l)
           n == Min(BatchSize, sb_stream - sb_group[g].last)
           ids == [k \in 1..n |-> sb_group[g].last + k]
       IN  /\ sb_batch' = [sb_batch EXCEPT ![l] = ids]
           /\ sb_group' = [sb_group EXCEPT ![g] =
                  [@ EXCEPT !.last = @ + n, !.pel = @ \cup { ids[k] : k \in 1..n }]]
           /\ sb_pos' = [sb_pos EXCEPT ![l] = IF n = 0 THEN LoopTest ELSE "handling"]
    /\ UNCHANGED <<sb_running, sb_stream, sb_seen, sb_at_stop>>
    /\ UNCHANGED not_sb_vars

(* the body of the for loop for the next entry of the batch: the handler   *)
(* is called, then xack for the loop's group unless something raised       *)
HandleEntry(l) ==
    /\ sb_pos[l] = "handling"
    /\ \E raised \in BOOLEAN :
         LET id == Head(sb_batch[l]) IN
         /\ sb_seen' = [sb_seen EXCEPT ![l] = Append(@, id)]
         /\ sb_group' = [sb_group EXCEPT ![GroupOf(l)].pel = AfterEntry(@, id, raised)]
         /\ sb_batch' = [sb_batch EXCEPT ![l] = Tail(@)]
         /\ sb_pos' = [sb_pos EXCEPT ![l] =
                          IF Tail(sb_batch[l]) = <<>> THEN LoopTest ELSE "handling"]
    /\ UNCHANGED <<sb_running, sb_stream, sb_at_stop>>
    /\ UNCHANGED not_sb_vars

(* EventBus.stop *)
EventBus_stop ==
    /\ sb_at_stop = None
    /\ sb_running' = FALSE
    /\ sb_at_stop' = Some({ l \in Subscriptions : Looping(l) })
    /\ UNCHANGED <<sb_pos, sb_stream, sb_group, sb_batch, sb_seen>>
    /\ UNCHANGED not_sb_vars

----------------------------------------------------------------------------
(* The assembler fed directly by its subscription, every publish succeeding *)

InitBuilder ==
    /\ active_candles = <<>>
    /\ previous_candles = [i \in Instruments |-> None]
    /\ last_minute_check = None
    /\ publish_failures = {}
    /\ candles = <<>>
    /\ handled = <<>>
    /\ created = {}
    /\ inbox = <<>>
    /\ now = 0
    /\ InitBus
    /\ InitDetector
    /\ InitPipeline
    /\ InitServices
    /\ InitProducer
    /\ InitOrderBook
    /\ InitInstruments
    /\ InitSharedBus

Init ==
    /\ feed \in Feeds
    /\ InitBuilder

HandleTick ==
    /\ Len(handled) < MaxTicks
    /\ \E tick \in TicksOf(feed) : tick_handler(tick, {})
    /\ UNCHANGED <<feed, inbox, now>>
    /\ UNCHANGED not_asm_vars

Next == HandleTick

Spec == Init /\ [][Next]_vars

(* The event bus alone: publishers, one subscribe loop *)
InitBusSpec ==
    /\ feed = RolloverFeed
    /\ InitBuilder

NextBus == Publish \/ PublishFails \/ AddForeignEntry \/ Subscribe \/ ReadGroup
              \/ HandlerReturns \/ HandlerRaises \/ DecodeRaises

SpecBus == InitBusSpec /\ [][NextBus]_vars

(* The detector alone *)
InitDetect ==
    /\ feed = RolloverFeed
    /\ InitBuilder

NextDetect == Detect

SpecDetect == InitDetect /\ [][NextDetect]_vars

(* The analyzer and the persister behind the "candles" stream *)
InitPipe ==
    /\ feed = RolloverFeed
    /\ InitBuilder

NextPipeline == PublishCandle \/ AnalyzeCandle \/ AnalyzeCandlePublishFails
                  \/ StoreCandle \/ StoreRedelivered

SpecPipeline == InitPipe /\ [][NextPipeline]_vars

(* The assembler and the analyzer together: the candles the assembler     *)
(* publishes are the entries the analyzer's subscription reads.            *)
(* A Decimal of the event in the detector's unit of 1/10000 (the values    *)
(* of LiveFeed are whole numbers of units).                                *)
Units(f) == (f[1] * 10000) \div f[2]

OptUnits(o) == IF o = None THEN None ELSE Some(Units(Val(o)))

(* the CandleCompletedEvent as AnalysisConsumer receives it *)
AsReceived(event) ==
    [instrument_key |-> event.instrument_key,
     candle_timestamp |-> event.candle_timestamp,
     close |-> event.close,
     previous_close |-> event.previous_close,
     oi_change_pct |-> OptUnits(event.oi_change_pct),
     vwap |-> Some(event.vwap),
     gamma_spike |-> Some(event.gamma_spike),
     order_book_ratio |-> OptUnits(event.order_book_ratio),
     bid_ask_spread |-> OptUnits(event.bid_ask_spread)]

InitEndToEnd ==
    /\ feed = LiveFeed
    /\ InitBuilder

(* tick_handler, its publishes arriving on the "candles" stream *)
HandleLiveTick ==
    /\ Len(handled) < MaxTicks
    /\ \E tick \in TicksOf(feed) : tick_handler(tick, {})
    /\ cstream' = [k \in 1..Len(candles') |-> AsReceived(candles'[k].event)]
    /\ UNCHANGED <<feed, inbox, now>>
    /\ UNCHANGED <<bus_vars, det_vars, an_vars, st_vars, svc_vars, ing_vars, ext_vars>>

NextEndToEnd == HandleLiveTick \/ AnalyzeCandle

SpecEndToEnd == InitEndToEnd /\ [][NextEndToEnd]_vars

(* The four services under the ServiceManager, with the stop and the      *)
(* cancellation of single workers                                          *)
NextServices ==
    \/ \E w \in Services : StartService(w)
    \/ ProducerReturnsEarly
    \/ \E w \in Services : StartFails(w)
    \/ ProducerTick
    \/ ProducerLoopExit
    \/ \E l \in SubscribeLoops : LoopRead(l)
    \/ \E l \in Loops : LoopExit(l)
    \/ \E w \in Services : stop(w)
    \/ \E w \in Services : CancelTask(w)
    \/ ProducerCancelled
    \/ \E w \in Consumers : ConsumerCancelled(w)
    \/ signal_handler
    \/ TimePasses
    \/ stop_all_cancel
    \/ stop_all_disconnect

SpecServices == InitPipe /\ [][NextServices]_vars

(* The same under the event loop's scheduling: a task that can take a step *)
(* takes it, the feed keeps delivering; the signal, stop() and the         *)
(* cancellation of one task are left to the environment                    *)
FairServices ==
    /\ SpecServices
    /\ \A w \in Services :
         WF_vars(StartService(w) \/ StartFails(w) \/ ProducerReturnsEarly)
    /\ WF_vars(ProducerTick)
    /\ WF_vars(ProducerLoopExit)
    /\ WF_vars(ProducerCancelled)
    /\ \A l \in Loops : WF_vars(LoopRead(l)) /\ WF_vars(LoopExit(l))
    /\ \A w \in Consumers : WF_vars(ConsumerCancelled(w))
    /\ WF_vars(stop_all_cancel)
    /\ WF_vars(stop_all_disconnect)

(* The order-book analyzer alone *)
NextOrderBook == AnalyzeOrderBook

SpecOrderBook == InitPipe /\ [][NextOrderBook]_vars

(* Two consumers of "candles" subscribed on one bus, and its stop() *)
NextSharedBus ==
    \/ PublishEntry
    \/ \E l \in Subscriptions : SubscribeCall(l)
    \/ \E l \in Subscriptions : SubscribeArm(l)
    \/ \E l \in Subscriptions : ReadNew(l)
    \/ \E l \in Subscriptions : HandleEntry(l)
    \/ EventBus_stop

SpecSharedBus == InitPipe /\ [][NextSharedBus]_vars

(* The same under the event loop's scheduling: a subscribe() that can go  *)
(* on does; publishing, calling subscribe and stop() are left to the users *)
FairSharedBus ==
    /\ SpecSharedBus
    /\ \A l \in Subscriptions :
         /\ WF_vars(SubscribeArm(l))
         /\ WF_vars(ReadNew(l))
         /\ WF_vars(HandleEntry(l))

(* The instrument manager called from the tasks of one event loop *)
NextInstruments ==
    \/ set_websocket
    \/ \E t \in Tasks : CallManager(t)
    \/ \E t \in Tasks : AcquireLock(t)
    \/ \E t \in Tasks : Body(t)
    \/ \E t \in Tasks : ReturnFromCall(t)

SpecInstruments == InitPipe /\ [][NextInstruments]_vars

(* The same under the event loop's scheduling: a coroutine that can go on  *)
(* does; when the manager is called is left to its users                   *)
FairInstruments ==
    /\ SpecInstruments
    /\ \A t \in Tasks :
         WF_vars(AcquireLock(t)) /\ WF_vars(Body(t)) /\ WF_vars(ReturnFromCall(t))

(* The ingestor against a feed that fails and comes back *)
NextIngestor == AuthFails \/ Connected \/ subscribe_instruments \/ ConnectionError
                  \/ SleepDone \/ producer_stop \/ ProducerExit

SpecIngestor == InitPipe /\ [][NextIngestor]_vars

(* The event bus under the handlers of the workers *)
NextWorker == NextBus \/ WorkerFails

SpecWorker == InitBusSpec /\ [][NextWorker]_vars

(* The event bus with a consumer that is stopped, cancelled and started    *)
(* again under the same group                                              *)
NextRestart == NextBus \/ Stop \/ Cancelled

SpecRestart == InitBusSpec /\ [][NextRestart]_vars

(* the subscribe loop keeps reading and handling, and a stopped consumer   *)
(* is started again; publishers and stops owe nothing                      *)
FairRestart ==
    /\ SpecRestart
    /\ WF_vars(Subscribe)
    /\ WF_vars(ReadGroup)
    /\ WF_vars(HandlerReturns \/ HandlerRaises \/ DecodeRaises)

----------------------------------------------------------------------------
(* The assembler when a publish to "candles" may raise *)

MaxFailures == 2        \* publishes that raise in one run

DueAccs(act, current_time) ==
    { act[i].acc : i \in { j \in 1..Len(act) : IsDue(act[j], current_time) } }

InitFail ==
    /\ feed = RolloverFeed
    /\ InitBuilder

(* a tick whose check runs and in which the publish of some due candles raises *)
HandleTickPublishFails ==
    /\ Len(handled) < MaxTicks
    /\ \E tick \in TicksOf(feed) :
         LET act1 == _handle_tick(active_candles, tick, Len(handled) + 1)
         IN  /\ last_minute_check # Some(MinuteOf(tick.candle_time))
             /\ \E failing \in SUBSET DueAccs(act1, tick.timestamp) :
                  /\ failing # {}
                  /\ Cardinality(failing) <= MaxFailures
                  /\ tick_handler(tick, failing)
    /\ UNCHANGED <<feed, inbox, now>>
    /\ UNCHANGED not_asm_vars

NextFail == HandleTick \/ HandleTickPublishFails

SpecFail == InitFail /\ [][NextFail]_vars

(* The same for two instruments inside one hour *)
RetainFeed ==   [name |-> "retain", instruments |-> {"A", "B"},
                 minutes |-> {0, 1, 2}, skews |-> {0},
                 secs |-> {0}, ltps |-> {1}, volumes |-> {1}, ois |-> {1},
                 previous_closes |-> {None}, books |-> {NoBook}]

InitRetain ==
    /\ feed = RetainFeed
    /\ InitBuilder

SpecRetain == InitRetain /\ [][NextFail]_vars

----------------------------------------------------------------------------
(* The assembler behind its inbox, with a live feed that may fall silent *)

MaxNow == 2             \* last wall-clock minute of a run
MaxInbox == 1           \* undelivered ticks held by the "ticks" stream

InitLive ==
    /\ feed = RolloverFeed
    /\ InitBuilder

(* a minute of wall-clock time passes *)
ClockTick ==
    /\ now < MaxNow
    /\ now' = now + 1
    /\ UNCHANGED <<feed, active_candles, previous_candles, last_minute_check,
                   publish_failures,
                   candles, handled, created, inbox>>
    /\ UNCHANGED not_asm_vars

(* the producer publishes a tick of the current minute to "ticks" *)
ProduceTick ==
    /\ Len(handled) + Len(inbox) < MaxTicks
    /\ Len(inbox) < MaxInbox
    /\ \E tick \in TicksOf(feed) :
         /\ tick.candle_time = now
         /\ inbox' = Append(inbox, tick)
    /\ UNCHANGED <<feed, active_candles, previous_candles, last_minute_check,
                   publish_failures,
                   candles, handled, created, now>>
    /\ UNCHANGED not_asm_vars

(* the subscription delivers the oldest undelivered tick to tick_handler *)
DeliverTick ==
    /\ inbox # <<>>
    /\ tick_handler(Head(inbox), {})
    /\ inbox' = Tail(inbox)
    /\ UNCHANGED <<feed, now>>
    /\ UNCHANGED not_asm_vars

NextLive == ClockTick \/ ProduceTick \/ DeliverTick

(* the subscribe loop keeps reading, and time keeps passing; the feed owes *)
(* nothing                                                                 *)
FairSpec ==
    /\ InitLive
    /\ [][NextLive]_vars
    /\ WF_vars(DeliverTick)
    /\ WF_vars(ClockTick)

----------------------------------------------------------------------------
(* The assembler when the bus hands it an entry of "ticks" a second time.  *)
(* Every tick of the feed is one stream entry; tick_handler receives the   *)
(* event only, never the entry id                                          *)

InitRedeliver ==
    /\ feed = RolloverFeed
    /\ InitBuilder

(* an entry of "ticks" is delivered for the first time *)
HandleFreshTick ==
    /\ Len(handled) < MaxTicks
    /\ \E tick \in TicksOf(feed) :
         /\ \A n \in 1..Len(handled) : handled[n] # tick
         /\ tick_handler(tick, {})
    /\ UNCHANGED <<feed, inbox, now>>
    /\ UNCHANGED not_asm_vars

(* an entry that was handled before is delivered and handled again *)
RedeliverTick ==
    /\ Len(handled) < MaxTicks
    /\ \E n \in 1..Len(handled) : tick_handler(handled[n], {})
    /\ UNCHANGED <<feed, inbox, now>>
    /\ UNCHANGED not_asm_vars

NextRedeliver == HandleFreshTick \/ RedeliverTick

SpecRedeliver == InitRedeliver /\ [][NextRedeliver]_vars

----------------------------------------------------------------------------
(* Histories read by the properties of the assembler *)

Published == 1..Len(candles)
Handled == 1..Len(handled)

(* the tick whose handling published entry k *)
TriggerOf(k) == handled[candles[k].at]

(* positions in `handled` of the ticks of minute m *)
TicksIn(m) == { n \in Handled : handled[n].candle_time = m }

(* entries of "candles" for (instrument i, minute m) *)
CandlesFor(i, m) ==
    { k \in Published : /\ candles[k].event.instrument_key = i
                        /\ candles[k].event.candle_timestamp = m }

(* the run so far fed one instrument, each tick stamped inside its own     *)
(* candle minute, in timestamp order                                       *)
OneInstrumentInOrder ==
    /\ \A n \in Handled :
         /\ handled[n].instrument_key = handled[1].instrument_key
         /\ handled[n].timestamp = handled[n].candle_time
    /\ \A n \in Handled : \A l \in Handled :
         n < l => \/ handled[n].candle_time < handled[l].candle_time
                  \/ /\ handled[n].candle_time = handled[l].candle_time
                     /\ handled[n].raw_timestamp <= handled[l].raw_timestamp

----------------------------------------------------------------------------
(* C1: a candle for accumulator (i, m) is published only while handling a  *)
(* tick whose candle_minute is strictly greater than m.                    *)
C1_PublishedOnlyByLaterMinuteTick ==
    \A k \in Published :
        TriggerOf(k).candle_time > candles[k].event.candle_timestamp

(* C2: a tick older than a candle already published for its instrument is  *)
(* discarded: no accumulator is ever created by such a tick, and no        *)
(* (instrument_key, candle_minute) has two published candles.              *)
C2_LateTickDiscardedOneCandlePerKey ==
    /\ \A a \in created :
         ~ \E k \in Published :
              /\ candles[k].at < a
              /\ candles[k].event.instrument_key = handled[a].instrument_key
              /\ candles[k].event.candle_timestamp > handled[a].candle_time
    /\ \A j \in Published : \A k \in Published :
         (/\ candles[j].event.instrument_key = candles[k].event.instrument_key
          /\ candles[j].event.candle_timestamp = candles[k].event.candle_timestamp)
         => j = k

(* C3: one instrument, ticks in timestamp order: once the first tick of    *)
(* minute m+1 is handled there is exactly one candle for m, published by   *)
(* that tick, with open/close the ltp of the first/last tick of m, high    *)
(* and low the extreme ltps of m and tick_count the number of ticks of m;  *)
(* the accumulator of the latest minute is active and unpublished.         *)
C3_RolloverCandle ==
    OneInstrumentInOrder =>
      \A m \in { handled[n].candle_time : n \in Handled } :
        LET i == handled[1].instrument_key
            ltps == { handled[n].ltp : n \in TicksIn(m) }
        IN  /\ TicksIn(m + 1) # {} =>
                /\ Cardinality(CandlesFor(i, m)) = 1
                /\ \A k \in CandlesFor(i, m) :
                     /\ candles[k].at = SetMin(TicksIn(m + 1))
                     /\ candles[k].event.open = handled[SetMin(TicksIn(m))].ltp
                     /\ candles[k].event.close = handled[SetMax(TicksIn(m))].ltp
                     /\ candles[k].event.high = SetMax(ltps)
                     /\ candles[k].event.low = SetMin(ltps)
                     /\ candles[k].event.tick_count = Cardinality(TicksIn(m))
            /\ (\A n \in Handled : handled[n].candle_time <= m) =>
                /\ HasKey(active_candles, <<i, m>>)
                /\ CandlesFor(i, m) = {}

(* the rollover has happened for a minute with three ticks of different    *)
(* prices, and the next minute is waiting                                  *)
C3_Witness ==
    /\ OneInstrumentInOrder
    /\ \E k \in Published :
         /\ candles[k].event.tick_count = 3
         /\ candles[k].event.low < candles[k].event.open
         /\ candles[k].event.open < candles[k].event.high
         /\ candles[k].event.close = candles[k].event.low
         /\ Len(active_candles) = 1
         /\ active_candles[1].candle_time = candles[k].event.candle_timestamp + 1

(* C4: the candle emitted for the ticks of one (instrument, minute) is the *)
(* candle of those ticks sorted by raw_timestamp, whatever order they      *)
(* arrived in.                                                             *)
C4_ArrivalOrderIndependent ==
    \A k \in Published :
        LET e == candles[k].event
            ticks == candles[k].added
            idx == 1..Len(ticks)
            whole == Len(ticks) = Cardinality(
                        { n \in TicksIn(e.candle_timestamp) :
                            handled[n].instrument_key = e.instrument_key })
            distinct == \A a \in idx : \A b \in idx :
                            ticks[a].raw_timestamp = ticks[b].raw_timestamp => a = b
            earliest == CHOOSE a \in idx :
                            \A b \in idx : ticks[a].raw_timestamp <= ticks[b].raw_timestamp
            latest == CHOOSE a \in idx :
                            \A b \in idx : ticks[b].raw_timestamp <= ticks[a].raw_timestamp
        IN  (whole /\ distinct) =>
              /\ e.open = ticks[earliest].ltp
              /\ e.close = ticks[latest].ltp
              /\ e.high = SetMax({ ticks[a].ltp : a \in idx })
              /\ e.low = SetMin({ ticks[a].ltp : a \in idx })
              /\ e.volume = ticks[latest].volume
              /\ e.oi = ticks[latest].oi

(* C5: an accumulator leaves active_candles only by being published, is    *)
(* published at most once, and is not active once published.               *)
C5_PublishedOnceThenRemoved ==
    LET activeAccs == { active_candles[i].acc : i \in 1..Len(active_candles) }
        publishedAccs == { candles[k].acc : k \in Published }
    IN  /\ created = activeAccs \cup publishedAccs
        /\ activeAccs \cap publishedAccs = {}
        /\ \A j \in Published : \A k \in Published :
             candles[j].acc = candles[k].acc => j = k

(* one accumulator whose publish raised is still active while another one  *)
(* was published and removed                                               *)
C5_Witness ==
    /\ Len(candles) >= 1
    /\ \E i \in 1..Len(active_candles) :
         \E k \in Published :
           /\ active_candles[i].acc < candles[k].acc
           /\ active_candles[i].candle_time # handled[Len(handled)].candle_time

IsActive(a) == \E i \in 1..Len(active_candles) : active_candles[i].acc = a

ActivePast(a) ==
    \E i \in 1..Len(active_candles) :
        /\ active_candles[i].acc = a
        /\ active_candles[i].candle_time < now

(* C6: every accumulator whose minute is in the past is eventually         *)
(* finalized, also when no further tick arrives.                           *)
C6_PastAccumulatorEventuallyFinalized ==
    \A a \in 1..MaxTicks : [](ActivePast(a) => <>(~IsActive(a)))

(* the candles of instrument e.instrument_key published before entry k *)
EarlierOf(k) ==
    { j \in Published : /\ j < k
                        /\ candles[j].event.instrument_key = candles[k].event.instrument_key }

(* previous_candles holds, per instrument, the accumulator of the last     *)
(* candle published for that instrument                                    *)
PreviousIsLastPublished ==
    \A i \in Instruments :
        LET mine == { k \in Published : candles[k].event.instrument_key = i }
        IN  IF mine = {} THEN previous_candles[i] = None
            ELSE /\ previous_candles[i] # None
                 /\ Val(previous_candles[i]).acc = candles[SetMax(mine)].acc

(* every tick so far was stamped inside its candle minute and no tick came *)
(* after a tick of a later minute                                          *)
InTimestampOrder ==
    /\ \A n \in Handled : handled[n].timestamp = handled[n].candle_time
    /\ \A n \in Handled : \A l \in Handled :
         n < l => handled[n].candle_time <= handled[l].candle_time

C8_OhlcOrdered ==
    \A k \in Published :
        LET e == candles[k].event
            ticks == candles[k].added
        IN  /\ e.low <= e.open /\ e.open <= e.high
            /\ e.low <= e.close /\ e.close <= e.high
            /\ (\A n \in 1..Len(ticks) : ticks[n].ltp >= 0) =>
                  (e.open >= 0 /\ e.high >= 0 /\ e.low >= 0 /\ e.close >= 0)

(* a candle of three ticks with prices 0 or more that rose above the open  *)
(* and fell below it                                                       *)
C8_Witness ==
    \E k \in Published :
        /\ 0 <= candles[k].event.low
        /\ candles[k].event.low < candles[k].event.open
        /\ candles[k].event.open < candles[k].event.high
        /\ candles[k].event.close # candles[k].event.open

----------------------------------------------------------------------------
(* Properties of the event bus *)

BatchIds == { batch[k].id : k \in 1..Len(batch) }

(* C9: the handler sees the entries of the stream in publish order (entry  *)
(* ids grow with every append) and each decoded event equals the event     *)
(* that was published under that id.                                       *)
C9_InPublishOrderSamePayload ==
    /\ \A n \in 1..Len(log) : sent[log[n].id] = Some(log[n].event)
    /\ \A n \in 1..Len(log) : \A m \in 1..Len(log) :
         n < m => log[n].id < log[m].id

(* two events handled, one of them a price with a trailing zero, after an  *)
(* older entry was trimmed from the stream                                 *)
C9_Witness ==
    /\ Len(log) >= 2
    /\ \E n \in 1..Len(log) : log[n].event.ltp = [coef |-> 150, exp |-> 2]
    /\ Len(stream) < last_id

----------------------------------------------------------------------------
(* C11: an entry that was delivered to the group and was still pending     *)
(* when the consumer was started again is eventually delivered again to    *)
(* the consumer of the group (unless it has been trimmed from the stream). *)
InStream(id) == \E k \in 1..Len(stream) : stream[k].id = id

C11_PendingRedeliveredAfterRestart ==
    \A id \in 1..MaxPublish :
        [](id \in pending_at_restart => <>(id \in BatchIds \/ ~InStream(id)))

(* C12: the stream never holds more than max_stream_length entries plus    *)
(* the slack of approximate trimming (less than one node), what is left is *)
(* always the newest entries (only the oldest end is cut), and a read of   *)
(* the group returns only entries that are in the stream at that moment.   *)
C12_TrimmedFromOldestWithinCap ==
    /\ [](Len(stream) < MaxStreamLength + StreamNodeEntries)
    /\ [](\A k \in 1..Len(stream) : stream[k].id = last_id - Len(stream) + k)
    /\ [][\A id \in delivered' \ delivered :
            \E k \in 1..Len(stream) : stream[k].id = id]_vars

(* the stream is one entry over the cap, an entry was trimmed before the   *)
(* group read it, and the group has read past it                           *)
C12_Witness ==
    /\ Len(stream) > MaxStreamLength
    /\ \E id \in 1..last_id :
         /\ id \notin delivered
         /\ id < group_last
         /\ \A k \in 1..Len(stream) : stream[k].id > id

(* C13: a publish whose append raises gives its caller the error and no    *)
(* entry id, and adds nothing: every entry of the stream comes from a call *)
(* that returned, so none is appended later from a kept copy.              *)
C13_FailedPublishAddsNothing ==
    /\ (result # None /\ Val(result).raised) => Val(result).event_id = None
    /\ (result # None /\ ~Val(result).raised) =>
         /\ Val(result).event_id # None
         /\ Val(Val(result).event_id) \in 1..last_id
         /\ sent[Val(Val(result).event_id)] # None
    /\ last_id = Len(sent)
    /\ \A k \in 1..Len(stream) : stream[k].id \in 1..Len(sent)

(* the last publish raised while the stream already held entries, and the  *)
(* consumer goes on with what was published                                *)
C13_Witness ==
    /\ result # None
    /\ Val(result).raised
    /\ stream # <<>>
    /\ done # {}

(* C14: ensuring a group that exists changes neither its last-delivered id *)
(* nor its pending list; a new group starts at "0", so that every entry of *)
(* the stream at or before the group's position has been delivered to it,  *)
(* whether it was published before the group existed or after.             *)
C14_EnsureGroupIdempotent ==
    /\ [](\A k \in 1..Len(stream) :
            (group_created /\ stream[k].id <= group_last) => stream[k].id \in delivered)
    /\ [][(group_created /\ ~running /\ running') =>
            (group_created' /\ group_last' = group_last /\ pel' = pel)]_vars
    /\ [][(~group_created /\ group_created') => (group_last' = 0 /\ pel' = {})]_vars

(* the consumer was started again on its group while an entry was pending, *)
(* and has read on from the group's position                               *)
C14_Witness ==
    /\ running
    /\ pending_at_restart # {}
    /\ pel # {}
    /\ group_last > 1
    /\ 1 \in delivered

----------------------------------------------------------------------------
(* C15: handling an entry of "ticks" again changes nothing: a published    *)
(* candle counts each entry merged into it once, however often the entry   *)
(* was delivered.                                                          *)
C15_RedeliveryIdempotent ==
    \A k \in Published :
        LET ticks == candles[k].added
        IN  candles[k].event.tick_count =
              Cardinality({ ticks[a] : a \in 1..Len(ticks) })

(* C16: an entry during whose handling the worker failed (the assembler   *)
(* or the analyzer could not publish, the persister's insert failed) is    *)
(* not acknowledged: it stays in the pending list.                         *)
C16_WorkerFailureStaysPending ==
    \A id \in worker_failed : id \in pel /\ id \notin done

----------------------------------------------------------------------------
(* Properties of the detector *)

FracEq(f, g) == f[1] * g[2] = g[1] * f[2]

Ind(b) == IF b THEN 1 ELSE 0

(* the feature flags of a DetectionResult that are set *)
Fired(d) ==
    Ind(d.short_covering) + Ind(d.gamma_spike_detected) + Ind(d.order_book_panic)
      + Ind(d.liquidity_drying) + Ind(d.strong_buying)

(* C17: for every combination of inputs, missing ones included,            *)
(* 0 <= panic_score <= 100 and 0 <= confidence <= 1.                       *)
C17_ScoreAndConfidenceInRange ==
    detection # None =>
      LET d == Val(detection)
      IN  /\ 0 <= d.panic_score
          /\ d.panic_score <= 100
          /\ FracLeq(<<0, 1>>, d.confidence)
          /\ FracLeq(d.confidence, <<1, 1>>)

(* every feature fired with both extra weights: the sum of the weights is  *)
(* 120 and the score is at the cap                                         *)
C17_Witness ==
    /\ detection # None
    /\ Fired(Val(detection)) = 5
    /\ Val(det_in.oi_change_pct) < -100
    /\ Val(det_in.order_book_ratio) = 2499
    /\ Val(detection).panic_score = 100

(* C18: panic_score = min(100, 30[short_covering]                          *)
(* + 10[short_covering and |oi_change_pct| > 0.01] + 25[gamma_spike]       *)
(* + 20[order_book_panic] + 10[order_book_panic and ratio < 0.25]          *)
(* + 15[liquidity_drying] + 10[strong_buying]) for every input.            *)
C18_PanicScoreFormula ==
    detection # None =>
      LET d == Val(detection)
          severe == d.short_covering /\ Abs(Val(det_in.oi_change_pct)) > 100
          extreme == d.order_book_panic /\ Val(det_in.order_book_ratio) < 2500
      IN  d.panic_score =
            Min(100, 30 * Ind(d.short_covering) + 10 * Ind(severe)
                       + 25 * Ind(d.gamma_spike_detected)
                       + 20 * Ind(d.order_book_panic) + 10 * Ind(extreme)
                       + 15 * Ind(d.liquidity_drying)
                       + 10 * Ind(d.strong_buying))

C20_NothingFiredIsNeutral ==
    detection # None =>
      LET d == Val(detection)
      IN  /\ Fired(d) = 0 =>
                /\ d.state = "NEUTRAL"
                /\ d.recommendation = "WAIT"
                /\ FracEq(d.confidence, <<5, 10>>)
                /\ d.panic_score = 0
                /\ d.signals = <<>>
          /\ (det_in.oi_change_pct = None \/ det_in.price = None
                \/ det_in.previous_close = None) => ~d.short_covering
          /\ det_in.gamma_spike = None => ~d.gamma_spike_detected
          /\ det_in.order_book_ratio = None => ~d.order_book_panic
          /\ det_in.bid_ask_spread = None => ~d.liquidity_drying
          /\ (det_in.price = None \/ det_in.vwap = None) => ~d.strong_buying
          /\ det_in = NoInputs => Fired(d) = 0

(* the detector has run on a call in which every input is missing *)
C20_Witness ==
    /\ detection # None
    /\ det_in = NoInputs
    /\ Val(detection).state = "NEUTRAL"
    /\ Val(detection).panic_score = 0

(* C21: when previous_close is missing or not greater than 0, short        *)
(* covering does not fire and adds nothing to panic_score: the score is    *)
(* the one the same call gets without its oi_change_pct.                   *)
C21_NoShortCoveringWithoutPreviousClose ==
    detection # None =>
      ((det_in.previous_close = None \/ Val(det_in.previous_close) <= 0) =>
         /\ ~Val(detection).short_covering
         /\ \A n \in 1..Len(Val(detection).signals) :
              Val(detection).signals[n] # "SHORT_COVERING"
         /\ Val(detection).panic_score =
              detect([det_in EXCEPT !.oi_change_pct = None]).panic_score)

(* a call with a falling open interest well past the threshold and a       *)
(* price, but no previous close, in which another feature fired            *)
C21_Witness ==
    /\ detection # None
    /\ det_in.previous_close = None
    /\ det_in.oi_change_pct = Some(-101)
    /\ det_in.price = Some(203)
    /\ Val(detection).panic_score > 0

(* C22: no input gives state SELLER_DIRECTION or recommendation SELL: the  *)
(* state is SELLER_PANIC, PROFIT_BOOKING or NEUTRAL and the recommendation *)
(* BUY or WAIT.                                                            *)
C22_NeverSellerDirectionNorSell ==
    detection # None =>
      /\ Val(detection).state \in {"SELLER_PANIC", "PROFIT_BOOKING", "NEUTRAL"}
      /\ Val(detection).recommendation \in {"BUY", "WAIT"}

(* short covering and a gamma spike, 55 points: the call ends in the       *)
(* default branch of determine_state_and_recommendation                    *)
C22_Witness ==
    /\ detection # None
    /\ Val(detection).short_covering
    /\ Val(detection).gamma_spike_detected
    /\ Val(detection).panic_score = 55
    /\ Val(detection).recommendation = "WAIT"

(* the signals published for entry idx of "candles" *)
SignalsOf(idx) == {n \in 1..Len(signals_stream) : signals_stream[n].candle_id = idx}

(* C23: the analyzer publishes exactly one signal for every candle it has  *)
(* handled without a failure and none for a candle whose handling failed,  *)
(* every signal belongs to a candle that is already on "candles" and was   *)
(* computed from it, and the signals stand on "signals" in the order of    *)
(* their candles on "candles".                                             *)
C23_OneSignalPerCandleInOrder ==
    /\ \A idx \in 1..an_next :
         Cardinality(SignalsOf(idx)) = (IF idx \in an_failed THEN 0 ELSE 1)
    /\ signal_count = an_next - Cardinality(an_failed)
    /\ \A n \in 1..Len(signals_stream) :
         /\ signals_stream[n].candle_id \in 1..an_next
         /\ an_next <= Len(cstream)
         /\ signals_stream[n].event.instrument_key
              = cstream[signals_stream[n].candle_id].instrument_key
         /\ signals_stream[n].event.candle_timestamp
              = cstream[signals_stream[n].candle_id].candle_timestamp
    /\ \A a, b \in 1..Len(signals_stream) :
         a < b => signals_stream[a].candle_id < signals_stream[b].candle_id

(* three candles handled, the second one's publish failed, the first and   *)
(* the third have their signals, in that order                             *)
C23_Witness ==
    /\ an_next = 3
    /\ an_failed = {2}
    /\ Len(signals_stream) = 2
    /\ signals_stream[1].candle_id = 1
    /\ signals_stream[2].candle_id = 3

EventKey(candle_event) == <<candle_event.instrument_key, candle_event.candle_timestamp>>

Downstream == {"analysis_consumer", "storage_consumer"}

(* C26: when stop_all cancels, the ingestor is the first it cancels; it    *)
(* cancels the analyzer or the persister only when the assembler has no    *)
(* unread tick left or time has passed since the signal (any time at all   *)
(* is taken for the grace deadline); and once the connection is closed     *)
(* every task has finished and no loop is running.                         *)
C26_ShutdownOrder ==
    /\ at_cancel # None =>
         /\ \A n \in 1..Len(Val(at_cancel).order) :
              Val(at_cancel).order[n] = "upstox_producer" => n = 1
         /\ (\E n \in 1..Len(Val(at_cancel).order) : Val(at_cancel).order[n] \in Downstream)
              => (Val(at_cancel).unread = 0 \/ Val(at_cancel).waited)
    /\ phase = "closed" =>
         /\ \A w \in Services : TaskDone(task[w])
         /\ \A l \in Loops : loop[l] # "looping" \/ task[LoopOwner(l)] # "running"

(* C27: a service whose task ended with an exception does not stay in      *)
(* ERROR while the system is up: it is started again, or the system        *)
(* leaves the running phase.                                               *)
C27_CrashedWorkerRestarted ==
    \A w \in Services :
      [](status[w] = "error" => <>(status[w] # "error" \/ phase # "up"))

(* C28: no subscription loop is ended by the bus's flag, which only the    *)
(* end of another loop clears, and no worker's cleanup closes the          *)
(* connection while a loop of another, uncancelled worker is running.      *)
C28_WorkersIndependent ==
    /\ \A l \in SubscribeLoops : loop[l] # "flag"
    /\ closed_on = {}

(* C29: after stop() on a consumer, none of its subscribe loops begins     *)
(* more than one further blocking read.                                    *)
C29_StopEndsStartAfterOneRead ==
    \A l \in SubscribeLoops :
      StopCalled(LoopOwner(l)) /\ LoopOwner(l) \in Consumers
        => reads_after_stop[l] <= 1

(* C30: the k-th sleep since the last established connection lasts         *)
(* 5, 10, 20, 40, 60, 60, ... seconds, every connection that listens has   *)
(* sent the subscription for the full configured instrument list, and a    *)
(* running producer never leaves its loop.                                 *)
C30_ExponentialBackoffResubscribe ==
    /\ \A k \in 1..Len(retry_waits) :
         retry_waits[k] = (IF k >= 5 THEN 60 ELSE 5 * 2^(k - 1))
    /\ ws_state = "listening" => last_subscription = Some(instrument_keys)
    /\ ws_state = "returned" => ~producer_running

(* C31: for non-negative bid and ask quantity lists the analyzer returns   *)
(* tbq = the sum of the bid quantities, tsq = the sum of the ask           *)
(* quantities and an order_book_ratio equal to tbq / (tbq + tsq), inside   *)
(* [0, 1]; for tbq + tsq = 0 the ratio is exactly 0.5.                     *)
C31_RatioIsBidShare ==
    ob_out # None =>
        LET book == Val(ob_in)
            out == Val(ob_out)
            ratio == out.order_book_ratio
            bids == SumSeq(book.bid_quantities)
            asks == SumSeq(book.ask_quantities)
        IN  /\ out.tbq = bids
            /\ out.tsq = asks
            /\ ratio[2] > 0
            /\ 0 <= ratio[1] /\ ratio[1] <= ratio[2]
            /\ IF bids + asks = 0
               THEN 2 * ratio[1] = ratio[2]
               ELSE ratio[1] * (bids + asks) = bids * ratio[2]

(* a book with levels on both sides and no quantity at all: ratio 0.5 *)
C31_Witness ==
    /\ ob_out # None
    /\ Val(ob_in).bid_quantities # <<>>
    /\ Val(ob_in).ask_quantities # <<>>
    /\ Val(ob_out).tbq + Val(ob_out).tsq = 0
    /\ Val(ob_out).order_book_ratio = <<1, 2>>

(* C32: the three support levels are the three bid entries of largest      *)
(* quantity in descending-quantity order, ties going to the higher price,  *)
(* padded with (0, 0) when there are fewer than three; `support` is the    *)
(* mean of the returned prices that are not zero.                          *)
C32_SupportTopThreeTiesToHigherPrice ==
    ob_out # None =>
        LET book == Val(ob_in)
            out == Val(ob_out)
            bids == Levels(book.bid_prices, book.bid_quantities)
            expected == [k \in 1..3 |->
                            IF k <= Len(bids) THEN SortedByQuantityThenPrice(bids)[k]
                            ELSE [price |-> 0, quantity |-> 0]]
            nonzero == { k \in 1..3 : out.support_levels[k].price # 0 }
            total == out.support_levels[1].price + out.support_levels[2].price
                       + out.support_levels[3].price
        IN  /\ out.support_levels = expected
            /\ nonzero # {} =>
                 out.support[1] * Cardinality(nonzero) = total * out.support[2]

(* the accumulator of published candle k stored no order-book snapshot *)
NoSnapshot(k) ==
    \A n \in 1..Len(candles[k].added) :
        \/ candles[k].added[n].bid_prices = <<>>
        \/ candles[k].added[n].ask_prices = <<>>

(* C33: a candle finalized from an accumulator whose ticks carried no      *)
(* order-book levels has null support and resistance, its order_book_ratio *)
(* is the fallback 0.5 and its bid_ask_spread the fallback 0, and the      *)
(* signal for it fires neither order_book_panic nor liquidity_drying.      *)
C33_NoBookFallsBackToNeutral ==
    \A k \in 1..Len(candles) :
        NoSnapshot(k) =>
            LET e == candles[k].event IN
            /\ e.support = None
            /\ e.resistance = None
            /\ e.order_book_ratio # None
            /\ 2 * Val(e.order_book_ratio)[1] = Val(e.order_book_ratio)[2]
            /\ e.bid_ask_spread # None
            /\ Val(e.bid_ask_spread)[1] = 0
            /\ \A n \in 1..Len(signals_stream) :
                 signals_stream[n].candle_id = k =>
                    /\ ~signals_stream[n].event.detection.order_book_panic
                    /\ ~signals_stream[n].event.detection.liquidity_drying

(* C40: every signal for a candle the assembler published has              *)
(* strong_buying = FALSE and does not list STRONG_BUYING, the assembler    *)
(* having set vwap to close.                                               *)
C40_PipelineNeverStrongBuying ==
    \A n \in 1..Len(signals_stream) :
        LET d == signals_stream[n].event.detection IN
        /\ ~d.strong_buying
        /\ \A j \in 1..Len(d.signals) : d.signals[j] # "STRONG_BUYING"

(* a candle that rose from 1 to 2 inside its minute was analysed *)
C40_Witness ==
    \E n \in 1..Len(signals_stream) :
        LET k == signals_stream[n].candle_id IN
        /\ candles[k].event.open = 1
        /\ candles[k].event.close = 2
        /\ candles[k].event.vwap = 2
        /\ ~signals_stream[n].event.detection.strong_buying

(* the tick the step handled, and whether its handler ran the check *)
StepTick == handled'[Len(handled')]

StepChecks == last_minute_check # Some(MinuteOf(StepTick.candle_time))

(* the accumulators whose publish raised in the step *)
StepFailed == { f.acc : f \in { g \in publish_failures' : g.at = Len(handled') } }

PublishedInStep(a) ==
    \E k \in (Len(candles) + 1)..Len(candles') : candles'[k].acc = a

(* C37: a publish that fails inside _check_and_complete_candles leaves the *)
(* accumulator in active_candles with its contents unchanged and does not  *)
(* make it the previous candle of its instrument; the other accumulators   *)
(* due in the same check are published and removed; and a retained         *)
(* accumulator is published by a later check in which it is due and the    *)
(* publish succeeds.                                                       *)
C37_FailedPublishRetainsCandle ==
    [][ handled' # handled =>
          \A i \in 1..Len(active_candles) :
            LET c == active_candles[i] IN
            /\ c.acc \in StepFailed =>
                 /\ \E j \in 1..Len(active_candles') : active_candles'[j] = c
                 /\ previous_candles'[c.instrument_key] # Some(c)
                 /\ ~PublishedInStep(c.acc)
            /\ (StepChecks /\ IsDue(c, StepTick.timestamp) /\ c.acc \notin StepFailed) =>
                 /\ PublishedInStep(c.acc)
                 /\ \A j \in 1..Len(active_candles') : active_candles'[j].acc # c.acc
      ]_vars

(* an accumulator whose publish raised was published by a later check,     *)
(* while another one, due in the check that failed, had been published     *)
C37_Witness ==
    \E f \in publish_failures :
        /\ \E k \in 1..Len(candles) : candles[k].acc = f.acc /\ candles[k].at > f.at
        /\ \E k \in 1..Len(candles) : candles[k].acc # f.acc /\ candles[k].at = f.at

C39_TickCountConserved ==
    Len(handled) = SumSeq([k \in 1..Len(candles) |-> candles[k].event.tick_count])
                     + SumSeq([i \in 1..Len(active_candles) |->
                                  active_candles[i].tick_count])

(* four ticks: a published candle of two ticks, another published candle, *)
(* and one accumulator still active                                        *)
C39_Witness ==
    /\ Len(handled) = 4
    /\ Len(candles) >= 2
    /\ \E k \in 1..Len(candles) : candles[k].event.tick_count = 2
    /\ Len(active_candles) >= 1

(* task t is inside a coroutine that waits for the lock while one of the   *)
(* coroutines that called it holds the lock                                *)
WaitsOnOwnLock(t) ==
    /\ im_stack[t] # <<>>
    /\ Top(t).stage = "lock"
    /\ \E d \in 1..(Len(im_stack[t]) - 1) : im_stack[t][d].stage = "locked"

(* call n was change_mode_websocket with a websocket set and has returned  *)
(* with every key recorded with the new mode, after one unsub message and  *)
(* then one sub message for the keys                                       *)
ChangedMode(n) ==
    /\ n <= Len(im_calls)
    /\ LET c == im_calls[n] IN
       /\ c.returned
       /\ \A k \in 1..Len(c.keys) : im_subs[c.keys[k]] = Some(c.mode)
       /\ \E a \in (c.sent + 1)..Len(im_sent) : \E b \in (a + 1)..Len(im_sent) :
            /\ im_sent[a] = [method |-> "unsub", mode |-> None, instrumentKeys |-> c.keys]
            /\ im_sent[b] = [method |-> "sub", mode |-> Some(c.mode),
                             instrumentKeys |-> c.keys]

(* C36: change_mode_websocket(keys, new_mode) with a websocket set always  *)
(* terminates, with every key recorded in subscriptions with new_mode      *)
(* after one unsub message followed by one sub message, and never blocks   *)
(* forever on the manager's own lock.                                      *)
C36_ChangeModeTerminates ==
    \A n \in 1..MaxCalls :
        [](( /\ n <= Len(im_calls)
             /\ im_calls[n].op = "change_mode_websocket"
             /\ im_calls[n].websocket )
           => <>(ChangedMode(n) /\ \A t \in Tasks : ~WaitsOnOwnLock(t)))

(* C34: after EventBus.stop() every subscribe() loop that was running on   *)
(* the bus exits once its current read or handler has finished, also when  *)
(* another subscribe() call on the bus starts concurrently with or after   *)
(* the stop.                                                               *)
C34_StopEndsEveryLoop ==
    \A l \in Subscriptions :
        []((sb_at_stop # None /\ l \in Val(sb_at_stop)) => <>(sb_pos[l] = "exited"))

(* the ids 1..n in order *)
UpTo(n) == [k \in 1..n |-> k]

====
